---- MODULE Spec2Model ----
(***************************************************************************)
(* Coupled 2D-3D time integrators of src/cofs/coupledTimeIntegrator.py:    *)
(* the dependency pipeline (_updateAllDependencies) and the recipes        *)
(* coupledSSPRKSync, coupledSSPIMEX, coupledSSPRKSemiImplicit and          *)
(* coupledSSPRKSingleMode, as a state machine that steps through advance   *)
(* one call at a time and records the calls it issues.                     *)
(*                                                                         *)
(* Python floats are modelled as binary floating-point numbers with a      *)
(* Prec-bit significand and round-to-nearest-even (IEEE-754 double is the  *)
(* case Prec = 53); the exponent range is not bounded.                     *)
(***************************************************************************)
EXTENDS Integers, Sequences, FiniteSets, TLC

VARIABLES
    recipe,         \* the coupled integrator class that was constructed
    options,        \* solver.options: the boolean switches
    solver_dt,      \* solver.dt (outer step)
    solver_dt_2d,   \* solver.dt_2d (barotropic target step)
    nStages,        \* number of stages of the recipe's stage loop
    dt_frac,        \* self.dt_frac   (Sync, SemiImplicit; <<>> otherwise)
    start_frac,     \* self.start_frac
    stage_w,        \* self.stage_w
    initialized,    \* self._initialized
    M,              \* self.M      (<<>> until initialize has run)
    dt_2d,          \* self.dt_2d  (<<>> until initialize has run)
    stepperInit,    \* sub-steppers whose initialize has been called
    pc,             \* position of the caller / of advance
    t,              \* the time argument of the current advance call
    k,              \* stage index of the stage loop
    ip,             \* index of the current statement of the stage body
    isub,           \* index i of the barotropic sub-cycle loop
    jp,             \* index of the current statement of the pipeline
    flags,          \* arguments of the current _updateAllDependencies call
    caller,         \* who called _updateAllDependencies: "advance" or "direct"
    log,            \* calls issued by the current advance call, in order
    err,            \* the exception that ended advance ("none" if none)
    nAdvance,       \* number of advance calls so far
    stepper,        \* one time stepper of timeintegrator.py, used on its own
    functions,      \* self.functions: the contents of the fields
    pipe,           \* the fields at entry of the current pipeline
                    \* invocation, and the direct invocations that ended
    equation        \* one equation object of momentum_eq.py or
                    \* shallowwater_eq.py, and the call made on it

vars == <<recipe, options, solver_dt, solver_dt_2d, nStages, dt_frac,
          start_frac, stage_w, initialized, M, dt_2d, stepperInit, pc, t, k,
          ip, isub, jp, flags, caller, log, err, nAdvance, stepper,
          functions, pipe, equation>>

config == <<recipe, options, solver_dt, solver_dt_2d, nStages>>
tables == <<dt_frac, start_frac, stage_w>>

(***************************************************************************)
(* Bounds of the model.                                                    *)
(***************************************************************************)
\* significand bits of the modelled floating-point format
Prec == 7
\* advance calls per behaviour
MaxSteps == 2
\* largest stage count tried for the SSP-IMEX stepper
MaxNStages == 3
\* step sizes tried are n/d with n <= MaxNum, d <= MaxDen
MaxNum == 11
MaxDen == 3
\* explicit initialize calls per object
MaxInits == 2
\* field values are 0..MaxVal
MaxVal == 1
\* largest number of Picard iterations tried
MaxIter == 2
\* layers of the water column
NLayers == 2
\* initial velocities are the integers -MaxVel..MaxVel
MaxVel == 1
\* direct invocations of the pipeline per behaviour
MaxCalls == 3

(***************************************************************************)
(* Floating-point arithmetic.  A float is <<m, e>> and stands for m * 2^e, *)
(* with m = 0 (zero, e = 0) or 2^(Prec-1) <= m < 2^Prec.  Only             *)
(* non-negative values occur in the code that is modelled.                 *)
(***************************************************************************)
RECURSIVE Pow2(_)
Pow2(n) == IF n <= 0 THEN 1 ELSE 2 * Pow2(n - 1)

FZero == <<0, 0>>

\* the rational n/d * 2^e (n, d > 0) rounded to nearest, ties to even
RECURSIVE RoundAt(_, _, _)
RoundAt(n, d, e) ==
    IF n < d * Pow2(Prec - 1) THEN RoundAt(2 * n, d, e - 1)
    ELSE IF n >= d * Pow2(Prec) THEN RoundAt(n, 2 * d, e + 1)
    ELSE LET q  == n \div d
             r  == n % d
             up == (2 * r > d) \/ (2 * r = d /\ q % 2 = 1)
             m  == IF up THEN q + 1 ELSE q
         IN  IF m = Pow2(Prec) THEN <<Pow2(Prec - 1), e + 1>> ELSE <<m, e>>

\* the float nearest to the rational n/d
FromRat(n, d) == IF n = 0 THEN FZero ELSE RoundAt(n, d, 0)
\* float(i) for an integer i >= 0
FromInt(i) == FromRat(i, 1)

MinE(a, b) == IF a[2] <= b[2] THEN a[2] ELSE b[2]
\* significand of a scaled to the exponent e <= a[2]
Scaled(a, e) == a[1] * Pow2(a[2] - e)

\* a * b
FMul(a, b) ==
    IF a[1] = 0 \/ b[1] = 0 THEN FZero ELSE RoundAt(a[1] * b[1], 1, a[2] + b[2])
\* a / b, b > 0
FDiv(a, b) ==
    IF a[1] = 0 THEN FZero ELSE RoundAt(a[1], b[1], a[2] - b[2])
\* a + b
FAdd(a, b) ==
    IF a[1] = 0 THEN b
    ELSE IF b[1] = 0 THEN a
    ELSE RoundAt(Scaled(a, MinE(a, b)) + Scaled(b, MinE(a, b)), 1, MinE(a, b))
\* a - b, a >= b
FSub(a, b) ==
    IF b[1] = 0 THEN a
    ELSE IF Scaled(a, MinE(a, b)) = Scaled(b, MinE(a, b)) THEN FZero
    ELSE RoundAt(Scaled(a, MinE(a, b)) - Scaled(b, MinE(a, b)), 1, MinE(a, b))
\* a < b, a <= b
FLt(a, b) == Scaled(a, MinE(a, b)) < Scaled(b, MinE(a, b))
FLe(a, b) == Scaled(a, MinE(a, b)) <= Scaled(b, MinE(a, b))
\* int(np.ceil(a))
FCeil(a) ==
    IF a[2] >= 0 THEN a[1] * Pow2(a[2])
    ELSE (a[1] + Pow2(0 - a[2]) - 1) \div Pow2(0 - a[2])
\* the next float above a, and the next float below a > 0
FSucc(a) ==
    IF a[1] + 1 = Pow2(Prec) THEN <<Pow2(Prec - 1), a[2] + 1>> ELSE <<a[1] + 1, a[2]>>
FPred(a) ==
    IF a[1] = Pow2(Prec - 1) THEN <<Pow2(Prec) - 1, a[2] - 1>> ELSE <<a[1] - 1, a[2]>>
\* |a - n/d| <= u units in the last place of a
NearRat(a, n, d, u) ==
    LET s  == IF a[2] < 0 THEN Pow2(0 - a[2]) ELSE 1
        g  == IF a[2] > 0 THEN Pow2(a[2]) ELSE 1
        df == a[1] * g * d - n * s
    IN  /\ df <= u * g * d
        /\ 0 - df <= u * g * d
\* a = n/d exactly
IsRat(a, n, d) == NearRat(a, n, d, 0)

FOne == FromInt(1)

(***************************************************************************)
(* Configuration: the recipes and the option switches they read.           *)
(***************************************************************************)
Recipes == {"coupledSSPRKSync", "coupledSSPIMEX", "coupledSSPRKSemiImplicit",
            "coupledSSPRKSingleMode", "coupledSSPRK"}

\* the recipes that build the stage-weight tables and sub-cycle counts
TableRecipes == {"coupledSSPRKSync", "coupledSSPRKSemiImplicit"}

OptionNames == {"solveSalt", "useLimiterForTracers", "useTurbulenceAdvection",
                "useTurbulence", "solveVertDiffusion", "useALEMovingMesh",
                "useBottomFriction", "useParabolicViscosity", "baroclinic",
                "smagorinskyFactor", "saltJumpDiffFactor"}

\* options that only switch a library call inside one pipeline step
LeafOptions == {"useBottomFriction", "useParabolicViscosity", "baroclinic",
                "smagorinskyFactor", "saltJumpDiffFactor"}

\* the settings of the leaf switches tried: all off, all on, and two mixed
LeafSettings ==
    {{}, LeafOptions, {"useBottomFriction", "baroclinic", "saltJumpDiffFactor"},
     {"useParabolicViscosity", "smagorinskyFactor"}}

\* the option records tried: every combination of the switches that shape
\* the schedule, with each of the leaf settings
OptionSets ==
    {o \in [OptionNames -> BOOLEAN] :
        {n \in LeafOptions : o[n]} \in LeafSettings}

\* every switch off
NoOptions == [n \in OptionNames |-> FALSE]

\* the (dt, dt_2d) pairs tried when stepping through advance
StepPairs == {<<FromInt(10), FromInt(3)>>, <<FromInt(4), FromInt(4)>>}

\* the step sizes tried when only initialize is run: the floats nearest to
\* n/d for small n and d
StepSizes == {FromRat(n, d) : n \in 1..MaxNum, d \in 1..MaxDen}

(***************************************************************************)
(* Field values.  A velocity is an exact rational <<n, d>> in lowest terms *)
(* with d > 0; a 3D field over one water column is the sequence of its     *)
(* layer values, bottom layer first.                                       *)
(***************************************************************************)
RECURSIVE GCD(_, _)
GCD(a, b) == IF b = 0 THEN a ELSE GCD(b, a % b)
Magnitude(n) == IF n < 0 THEN -n ELSE n
\* the rational n/d (d # 0) in lowest terms
Rat(n, d) ==
    LET s == IF d < 0 THEN -1 ELSE 1
        g == GCD(Magnitude(n), Magnitude(d))
    IN  <<(s * n) \div g, (s * d) \div g>>
RInt(n) == <<n, 1>>
RAdd(a, b) == Rat(a[1] * b[2] + b[1] * a[2], a[2] * b[2])
RSub(a, b) == Rat(a[1] * b[2] - b[1] * a[2], a[2] * b[2])
RMul(a, b) == Rat(a[1] * b[1], a[2] * b[2])
\* the exact value of a float
FloatToRat(f) ==
    IF f[2] >= 0 THEN Rat(f[1] * Pow2(f[2]), 1) ELSE Rat(f[1], Pow2(-f[2]))

\* layer-wise operations on the fields of a column
ColAdd(u, v) == [i \in DOMAIN u |-> RAdd(u[i], v[i])]
ColSub(u, v) == [i \in DOMAIN u |-> RSub(u[i], v[i])]

\* sum over layers 1..i of height times value
RECURSIVE PartialIntegral(_, _, _)
PartialIntegral(u, h, i) ==
    IF i = 0 THEN RInt(0)
    ELSE RAdd(PartialIntegral(u, h, i - 1), RMul(h[i], u[i]))
\* total height of the column
RECURSIVE Depth(_, _)
Depth(h, i) == IF i = 0 THEN RInt(0) ELSE RAdd(Depth(h, i - 1), h[i])

\* computeVerticalIntegral(u, out, bottomToTop=True, average=True): the
\* integral of u from the bottom up to each layer, divided by the depth
VerticalAverage(u, h) ==
    LET d == Depth(h, Len(h))
    IN  [i \in DOMAIN u |-> RMul(PartialIntegral(u, h, i), Rat(d[2], d[1]))]
\* copy3dFieldTo2d(f3d, f2d, useBottomValue=False): the value at the surface
Copy3dTo2d(f3d) == f3d[Len(f3d)]
\* copy2dFieldTo3d(f2d, f3d): the 2D value in every layer
Copy2dTo3d(f2d) == [i \in 1..NLayers |-> f2d]
\* the depth average of a 3D field
DepthAverage(u, h) == Copy3dTo2d(VerticalAverage(u, h))

\* a diagnostic field computed by a library call from the listed inputs
Computed(by, from) == [by |-> by, from |-> from]
\* a diagnostic field nothing has computed yet
NotComputed == Computed("none", <<>>)

\* layer heights of the reference mesh, and of the mesh moved to an elevation
RefHeights == [i \in 1..NLayers |-> RInt(i)]
MovedHeights(elev) == [RefHeights EXCEPT ![NLayers] = RAdd(@, elev)]

\* self.functions (and the solver's turbulence fields) for given velocities
\* and elevation, before any diagnostic has been computed
NewFunctions(u3, u2, e2) ==
    [uv3d |-> u3, uv2d |-> u2, elev2d |-> e2, salt3d |-> RInt(0),
     tke3d |-> RInt(0), psi3d |-> RInt(0),
     uvDav3d |-> Copy2dTo3d(RInt(0)), uvDav2d |-> RInt(0),
     elev3d |-> RInt(0), vElemSize3d |-> RefHeights,
     w3d |-> NotComputed, w_mesh3d |-> NotComputed,
     bottom_drag3d |-> NotComputed, parabViscosity_v |-> NotComputed,
     baroHead3d |-> NotComputed, uv3d_mag |-> NotComputed,
     uv3d_P1 |-> NotComputed, smag_viscosity |-> NotComputed,
     saltJumpDiff |-> NotComputed,
     sol2d_n |-> <<RInt(0), RInt(0)>>, uv2d_start |-> RInt(0)]

\* the field contents every recipe starts from in the stage-loop model
StartFunctions == NewFunctions([i \in 1..NLayers |-> RInt(i)], RInt(1), RInt(0))
\* no invocation of the pipeline has ended; f are the fields
NoRuns(f) == [entry |-> f, runs |-> <<>>]

\* the fields a stage solve or a step of a sub-stepper leaves: new values, a
\* function of the old ones (whole numbers, so that values stay small)
Whole(x) == x[1] \div x[2]
SolveUv3d(f) == [f EXCEPT !.uv3d = [i \in DOMAIN @ |-> RInt(Whole(@[i]) + i)]]
Solve2d(f) == [f EXCEPT !.uv2d = RInt(Whole(@) + 1), !.elev2d = RInt(Whole(@) + 1)]
SolveSalt3d(f) == [f EXCEPT !.salt3d = RInt(Whole(@) + 1)]
SolveTurbulence(f) == [f EXCEPT !.psi3d = RInt(Whole(@) + 1), !.tke3d = RInt(Whole(@) + 2)]

\* w*a + (1.0 - w)*b for a float w and field values a, b
Blend(w, a, b) ==
    RAdd(RMul(FloatToRat(w), a), RMul(FloatToRat(FSub(FOne, w)), b))
\* the blend with the weights of the snapshot and of the current state swapped
BlendSol2dSwapped(f, w) ==
    [f EXCEPT !.uv2d = Blend(w, @, f.sol2d_n[1]),
              !.elev2d = Blend(w, @, f.sol2d_n[2])]
\* sol2d.assign(w*self.sol2d_n + (1.0-w)*sol2d), sol2d being (uv2d, elev2d)
BlendSol2d(f, w) ==
    [f EXCEPT !.uv2d = Blend(w, f.sol2d_n[1], @),
              !.elev2d = Blend(w, f.sol2d_n[2], @)]
\* self.sol2d_n.assign(sol2d)
SnapshotSol2d(f) == [f EXCEPT !.sol2d_n = <<f.uv2d, f.elev2d>>]

\* _update3dElevation
Elevation3d(f) == [f EXCEPT !.elev3d = f.elev2d]
\* _updateMovingMesh
MovingMesh(f, o) ==
    IF o["useALEMovingMesh"]
    THEN [f EXCEPT !.vElemSize3d = MovedHeights(f.elev3d)] ELSE f
\* the base-class coupling without the subtraction of the depth average
CouplingNoSubtract(f) ==
    [f EXCEPT !.uvDav2d = DepthAverage(f.uv3d, f.vElemSize3d),
              !.uvDav3d = Copy2dTo3d(f.uv2d),
              !.uv3d = ColAdd(f.uv3d, Copy2dTo3d(f.uv2d))]
\* _update2DCoupling of the base class
CouplingDefault(f) ==
    LET dav2d == DepthAverage(f.uv3d, f.vElemSize3d)
        dev3d == ColSub(f.uv3d, Copy2dTo3d(dav2d))
    IN  [f EXCEPT !.uvDav2d = dav2d,
                  !.uvDav3d = Copy2dTo3d(f.uv2d),
                  !.uv3d = ColAdd(dev3d, Copy2dTo3d(f.uv2d))]
\* _update2DCoupling of coupledSSPRKSingleMode
CouplingSingleMode(f) ==
    LET dav3d == VerticalAverage(f.uv3d, f.vElemSize3d)
    IN  [f EXCEPT !.uvDav3d = dav3d,
                  !.uvDav2d = Copy3dTo2d(dav3d),
                  !.uv2d = Copy3dTo2d(dav3d)]
\* _update2DCoupling of coupledSSPRK
CouplingSSPRK(f) ==
    LET dav2d == DepthAverage(f.uv3d, f.vElemSize3d)
    IN  [f EXCEPT !.uvDav2d = dav2d,
                  !.uvDav3d = Copy2dTo3d(dav2d),
                  !.uv2d_start = dav2d]
Coupling(r, f) ==
    IF r = "coupledSSPRKSingleMode" THEN CouplingSingleMode(f)
    ELSE IF r = "coupledSSPRK" THEN CouplingSSPRK(f)
    ELSE CouplingDefault(f)
\* a vertical velocity that is computed in the first invocation only
VerticalVelocityFirstRun(f) ==
    IF pipe.runs # <<>> THEN f
    ELSE [f EXCEPT !.w3d = Computed("computeVertVelocity", <<f.uv3d>>)]
\* _updateVerticalVelocity
VerticalVelocity(f) == [f EXCEPT !.w3d = Computed("computeVertVelocity", <<f.uv3d>>)]
\* _updateMeshVelocity
MeshVelocity(f, o) ==
    IF o["useALEMovingMesh"]
    THEN [f EXCEPT !.w_mesh3d =
                      Computed("computeMeshVelocity", <<f.elev3d, f.uv3d, f.w3d>>)]
    ELSE f
\* self.solver.uvP1_projector.project()
ProjectP1(f) == [f EXCEPT !.uv3d_P1 = Computed("uvP1_projector", <<f.uv3d>>)]
\* _updateBottomFriction
BottomFriction(f, o) ==
    LET g == IF o["useBottomFriction"]
             THEN [ProjectP1(f) EXCEPT !.bottom_drag3d =
                      Computed("computeBottomFriction",
                               <<ProjectP1(f).uv3d_P1, f.vElemSize3d>>)]
             ELSE f
    IN  IF o["useParabolicViscosity"]
        THEN [g EXCEPT !.parabViscosity_v =
                          Computed("computeParabolicViscosity", <<g.bottom_drag3d>>)]
        ELSE g
\* _updateBaroclinicity
Baroclinicity(f, o) ==
    IF o["baroclinic"]
    THEN [f EXCEPT !.baroHead3d = Computed("computeBaroclinicHead", <<f.salt3d>>)]
    ELSE f
\* _updateStabilizationParams
StabilizationParams(f, o) ==
    LET g == ProjectP1([f EXCEPT !.uv3d_mag =
                                    Computed("computeVelMagnitude", <<f.uv3d>>)])
        h == IF o["smagorinskyFactor"]
             THEN [g EXCEPT !.smag_viscosity =
                               Computed("smagorinskyViscosity", <<g.uv3d_P1>>)]
             ELSE g
    IN  IF o["saltJumpDiffFactor"]
        THEN [h EXCEPT !.saltJumpDiff =
                          Computed("computeHorizJumpDiffusivity",
                                   <<h.salt3d, h.uv3d_mag>>)]
        ELSE h

(***************************************************************************)
(* The equation objects of momentum_eq.py and shallowwater_eq.py.          *)
(***************************************************************************)
\* an optional argument: the empty set is None, {v} is the value v
None == {}
Given(v) == {v}

\* the classes that define get_time_step_advection
AdvectionStepClasses ==
    {"ShallowWaterEquations", "FreeSurfaceEquation", "ShallowWaterEquationsNew",
     "FreeSurfaceEquationNew"}

\* an equation object of class c before the call: nonlin and horizontal_dg
\* are set by the constructor; lax, mag and p1 are the arguments
\* lax_friedrichs_factor, uv_mag and uv_p1 of horizontal_advection, and u the
\* value of the Constant u_mag of get_time_step_advection
NewEquation(c, nl, hdg, lax, mag, p1, u) ==
    [class |-> c, nonlin |-> nl, horizontal_dg |-> hdg,
     lax_friedrichs_factor |-> lax, uv_mag |-> mag, uv_p1 |-> p1, u_mag |-> u,
     epc |-> "idle", terms |-> {}, time_step |-> "none", err |-> "none"]
\* the equation object where it is left unused
NoEquation == NewEquation("MomentumEquation", TRUE, TRUE, None, None, None, 1)

\* the guard of the Lax-Friedrichs block of horizontal_advection
LaxFriedrichsGuard(e) == e.lax_friedrichs_factor # None /\ e.uv_mag # None
\* the branch taken inside the block: gamma from uv_p1, gamma from uv_mag, or
\* the raise
LaxFriedrichsBranch(e) ==
    IF e.uv_p1 # None THEN "uv_p1"
    ELSE IF e.uv_mag # None THEN "uv_mag"
    ELSE "raise"
\* horizontal_advection raises
AdvectionRaises(e) ==
    /\ e.nonlin
    /\ e.horizontal_dg
    /\ LaxFriedrichsGuard(e)
    /\ LaxFriedrichsBranch(e) = "raise"
\* the integrals of the form horizontal_advection returns, on a mesh whose
\* lateral boundary is closed (return 0 is the empty form)
AdvectionTerms(e) ==
    IF ~e.nonlin THEN {}
    ELSE {"volume", "surface_bottom"}
         \cup (IF e.horizontal_dg THEN {"interior_flux"} ELSE {})
         \cup (IF e.horizontal_dg /\ LaxFriedrichsGuard(e)
               THEN {"lax_friedrichs_interior"} ELSE {})
         \cup (IF e.horizontal_dg /\ e.lax_friedrichs_factor # None
               THEN {"lax_friedrichs_boundary"} ELSE {})

\* the classes whose get_time_step_advection tests u_mag against zero
ChecksZeroScale(c) == c = "ShallowWaterEquations"
\* the outcomes of solve(a == l, res) with l = uu*csize/u_mag*dx: a finite
\* field; with u_mag zero the quotient is not finite, and the linear solve
\* either returns the non-finite field or fails
TimeStepOutcomes(u) ==
    IF u # 0 THEN {"finite"} ELSE {"not finite", "ConvergenceError"}

(***************************************************************************)
(* The time steppers of timeintegrator.py, used on their own.  A field is  *)
(* a value of Vals; a stepper is a record of its functions, its position   *)
(* in advance and the calls the current advance has issued.                *)
(***************************************************************************)
Schemes ==
    {"ForwardEuler", "CrankNicolson", "SteadyState", "PressureProjectionPicard",
     "LeapFrogAM3", "SSPRK22ALE", "TwoStageTrapezoid"}
\* the steppers that test self._nontrivial
GatedSchemes == {"LeapFrogAM3", "SSPRK22ALE", "TwoStageTrapezoid"}
\* the values a field can take
Vals == 0..MaxVal
\* self.dt of the stand-alone stepper
StepperDt == FromRat(1, 3)
\* the abscissae c of the two-stage steppers
StageAbscissae == <<0, 1>>

\* the residual form of the equation evaluated at the solution u with the
\* forcing fields f
Residual(u, f) == u + (MaxVal + 1) * f
\* self.l = self.dt_const*self.equation.residual(...), assembled
Tendency(u, f) == RMul(FloatToRat(StepperDt), RInt(Residual(u, f)))

\* the stepper after its constructor: every Function it creates is zero; k1
\* remembers the tendency that entered mu in the first stage of the current
\* advance, solution_n, fields_n and solution_old_n what solution, fields and
\* solution_old held when it was entered
NewStepper(s, n, nt, u, f) ==
    [scheme |-> s, iterations |-> n, nontrivial |-> nt,
     solution |-> u, solution_old |-> 0, solution_lagged |-> 0,
     msolution_old |-> 0, fields |-> f, fields_old |-> 0,
     ready |-> FALSE, spc |-> "idle", sip |-> 1, cb |-> FALSE, t |-> FZero,
     calls |-> <<>>, err |-> "none", nCalls |-> 0, nInit |-> 0,
     input |-> 0, repeated |-> FALSE, solution_n |-> u, fields_n |-> f,
     mu |-> RInt(0), mu_old |-> RInt(0), tendency |-> RInt(0), k1 |-> RInt(0),
     solution_old_n |-> 0]

\* a statement of a stepper method
Stmt(op, a, b, c) == [op |-> op, a |-> a, b |-> b, c |-> c]
\* if update_forcings is not None: update_forcings(t + self.dt)
Forcing == Stmt("update_forcings", "t + dt", "", 1)
\* the stage callback handed the end of the step at every stage
StageForcingStepEnd(i) == Stmt("update_forcings", "t + c*dt", "", 1)
\* if update_forcings is not None: update_forcings(t + self.c[i_stage]*self.dt)
StageForcing(i) == Stmt("update_forcings", "t + c*dt", "", StageAbscissae[i + 1])
\* dst.assign(src)
Assign(dst, src) == Stmt("assign", dst, src, 0)
\* a solver call that writes dst
Solve(name, dst) == Stmt("solve", name, dst, 0)
\* assemble(form, dst)
Assemble(form, dst) == Stmt("assemble", form, dst, 0)
\* for k in self.fields_old: self.fields_old[k].assign(self.fields[k])
ShiftFields == Stmt("shift_fields", "fields_old", "fields", 0)
\* the evaluation of a name that the method does not bind
ReadName(n) == Stmt("name", n, "", 0)

RECURSIVE Repeat(_, _)
Repeat(s, n) == IF n = 0 THEN <<>> ELSE s \o Repeat(s, n - 1)

\* the statements of initialize(solution); "input" is its argument
InitializeBody(st) ==
    CASE st.scheme \in {"ForwardEuler", "CrankNicolson"} ->
           <<Assign("solution_old", "input"), ShiftFields>>
      [] st.scheme = "SteadyState" -> <<>>
      [] st.scheme = "PressureProjectionPicard" ->
           <<Assign("solution_old", "input"), Assign("solution_lagged", "input"),
             ShiftFields>>
      [] st.scheme = "LeapFrogAM3" ->
           <<Assemble("a", "mass_matrix"), Assign("solution", "input"),
             Assign("solution_old", "input"),
             Assemble("mass_new", "msolution_old"), Stmt("ready", "lin_solver", "", 0)>>
      [] st.scheme = "SSPRK22ALE" ->
           <<Assign("solution", "input"), Assemble("a", "mass_matrix"),
             Stmt("ready", "lin_solver", "", 0)>>
      [] st.scheme = "TwoStageTrapezoid" ->
           <<Assign("solution", "input"), Assign("solution_old", "input")>>

\* predict with the time shift ahead of the assembly of its right-hand side
LeapFrogPredictShiftFirst ==
    <<Assemble("mass_new", "msolution_old"), Assign("solution_old", "solution"),
      Assemble("l_prediction", "rhs_func"), Solve("_solve_system", "solution")>>
\* LeapFrogAM3.predict, eval_rhs and correct
LeapFrogPredict ==
    <<Assemble("mass_new", "msolution_old"), Assemble("l_prediction", "rhs_func"),
      Assign("solution_old", "solution"), Solve("_solve_system", "solution")>>
LeapFrogEvalRhs == <<Assemble("l", "rhs_func")>>
LeapFrogCorrect ==
    <<Stmt("incr", "rhs_func", "msolution_old", 0), Assemble("a", "mass_matrix"),
      Solve("_solve_system", "solution")>>

\* the second stage prepared without a new assembly of the tendency
SSPRK22ALEStageOneTendency(i, nt) ==
    <<StageForcing(i)>>
    \o (IF ~nt THEN <<>>
        ELSE IF i = 0
        THEN <<Assemble("mu_form", "mu_old"), Assemble("l", "tendency"),
               Stmt("stage_one", "mu", "mu_old + tendency", 0)>>
        ELSE <<Stmt("stage_two", "mu", "0.5*mu + 0.5*mu_old + 0.5*tendency", 0)>>)
    \o (IF nt THEN <<Assemble("a", "lin_solver.A"), Solve("lin_solver", "solution")>>
        ELSE <<>>)
\* SSPRK22ALE.prepare_stage(i) followed by solve_stage(i)
SSPRK22ALEStage(i, nt) ==
    <<StageForcing(i)>>
    \o (IF ~nt THEN <<>>
        ELSE IF i = 0
        THEN <<Assemble("mu_form", "mu_old"), Assemble("l", "tendency"),
               Stmt("stage_one", "mu", "mu_old + tendency", 0)>>
        ELSE <<Assemble("l", "tendency"),
               Stmt("stage_two", "mu", "0.5*mu + 0.5*mu_old + 0.5*tendency", 0)>>)
    \o (IF nt THEN <<Assemble("a", "lin_solver.A"), Solve("lin_solver", "solution")>>
        ELSE <<>>)

\* solve_stage without the time shift after the second solve
TrapezoidStageNoShift(i, nt) ==
    IF ~nt THEN <<>>
    ELSE <<StageForcing(i)>>
         \o (IF i = 0 THEN <<Solve("solver_0", "solution")>>
             ELSE <<Solve("solver_1", "solution")>>)
\* TwoStageTrapezoid.solve_stage(i)
TrapezoidStage(i, nt) ==
    IF ~nt THEN <<>>
    ELSE <<StageForcing(i)>>
         \o (IF i = 0 THEN <<Solve("solver_0", "solution")>>
             ELSE <<Solve("solver_1", "solution"), Assign("solution_old", "solution")>>)

\* a Picard iteration that lags the solution after its two solves
PicardIterationLagsLast(n) ==
    <<Solve("solver_mom", "uv_star"), Solve("solver", "solution")>>
    \o (IF n > 1 THEN <<Assign("solution_lagged", "solution")>> ELSE <<>>)
\* the body of "for it in range(self.iterations)" of PressureProjectionPicard
PicardIteration(n) ==
    (IF n > 1 THEN <<Assign("solution_lagged", "solution")>> ELSE <<>>)
    \o <<Solve("solver_mom", "uv_star"), Solve("solver", "solution")>>

\* the statements of advance(t, update_forcings), in the order they run
AdvanceBody(st) ==
    CASE st.scheme = "ForwardEuler" ->
           <<ReadName("dt"), Forcing, Assign("solution_old", "solution"),
             Solve("solver", "solution"), ShiftFields>>
      [] st.scheme = "CrankNicolson" ->
           <<Forcing, Assign("solution_old", "solution"),
             Solve("solver", "solution"), ShiftFields>>
      [] st.scheme = "SteadyState" ->
           <<Forcing, Solve("solver", "solution")>>
      [] st.scheme = "PressureProjectionPicard" ->
           <<Forcing, Assign("solution_old", "solution")>>
           \o Repeat(PicardIteration(st.iterations), st.iterations)
           \o <<ShiftFields>>
      [] st.scheme = "LeapFrogAM3" ->
           IF st.nontrivial
           THEN <<Forcing>> \o LeapFrogPredict \o LeapFrogEvalRhs \o LeapFrogCorrect
           ELSE <<>>
      [] st.scheme = "SSPRK22ALE" ->
           SSPRK22ALEStage(0, st.nontrivial) \o SSPRK22ALEStage(1, st.nontrivial)
      [] st.scheme = "TwoStageTrapezoid" ->
           IF st.nontrivial
           THEN TrapezoidStage(0, st.nontrivial) \o TrapezoidStage(1, st.nontrivial)
           ELSE <<>>

\* with iterations = 1 solution_lagged is the same Function as solution_old
LaggedIsOld(st) == st.scheme = "PressureProjectionPicard" /\ st.iterations = 1
\* the value of a Function of the stepper
ValueOf(st, name) ==
    CASE name = "solution" -> st.solution
      [] name = "input" -> st.input
      [] name = "solution_old" -> st.solution_old
      [] name = "solution_lagged" ->
           IF LaggedIsOld(st) THEN st.solution_old ELSE st.solution_lagged
      [] name = "msolution_old" -> st.msolution_old
      [] name = "fields" -> st.fields
      [] name = "fields_old" -> st.fields_old
      [] name = "mu" -> st.mu
      [] name = "mu_old" -> st.mu_old
      [] name = "tendency" -> st.tendency
\* the stepper after the Function dst took the value v
Write(st, dst, v) ==
    CASE dst = "solution" -> [st EXCEPT !.solution = v]
      [] dst = "solution_old" -> [st EXCEPT !.solution_old = v]
      [] dst = "solution_lagged" ->
           IF LaggedIsOld(st) THEN [st EXCEPT !.solution_old = v]
           ELSE [st EXCEPT !.solution_lagged = v]
      [] dst = "msolution_old" -> [st EXCEPT !.msolution_old = v]
      [] dst = "fields_old" -> [st EXCEPT !.fields_old = v]
      [] dst = "mu" -> [st EXCEPT !.mu = v]
      [] dst = "mu_old" -> [st EXCEPT !.mu_old = v]
      [] dst = "tendency" -> [st EXCEPT !.tendency = v]
      [] OTHER -> st

\* the stepper after a statement that neither solves nor calls back
Exec(st, s) ==
    CASE s.op = "assign" -> Write(st, s.a, ValueOf(st, s.b))
      [] s.op = "shift_fields" ->
           IF st.scheme = "PressureProjectionPicard" \/ st.scheme \notin GatedSchemes
           THEN Write(st, "fields_old", st.fields) ELSE st
      [] s.op = "assemble" ->
           \* the mass form applied to the solution stands for the solution
           CASE s.a = "mass_new" -> Write(st, s.b, st.solution)
             [] s.a = "mu_form" -> Write(st, s.b, RInt(st.solution))
             [] s.a = "l" /\ s.b = "tendency" ->
                  Write(st, s.b, Tendency(st.solution, st.fields))
             [] OTHER -> st
      \* self.mu.assign(self.mu_old + self.tendency)
      [] s.op = "stage_one" -> Write(st, s.a, RAdd(st.mu_old, st.tendency))
      \* self.mu.assign(0.5*self.mu + 0.5*self.mu_old + 0.5*self.tendency)
      [] s.op = "stage_two" ->
           Write(st, s.a, RAdd(RAdd(RMul(Rat(1, 2), st.mu), RMul(Rat(1, 2), st.mu_old)),
                               RMul(Rat(1, 2), st.tendency)))
      [] s.op = "ready" -> [st EXCEPT !.ready = TRUE]
      [] OTHER -> st

RECURSIVE ExecAll(_, _)
ExecAll(st, body) ==
    IF body = <<>> THEN st ELSE ExecAll(Exec(st, Head(body)), Tail(body))

\* a call the current advance issued
SEv(s, tm) == [op |-> s.op, a |-> s.a, b |-> s.b, tm |-> tm]

\* the variables of the coupled integrator and of the equation object
recipeVars ==
    <<config, tables, initialized, M, dt_2d, stepperInit, pc, t, k, ip, isub,
      jp, flags, caller, log, err, nAdvance, functions, pipe, equation>>

\* the caller calls initialize(solution) with a field of value inp; nInit
\* counts the initialize calls made in a row, and repeated tells whether the
\* last one had the argument of the one before
StInitialize ==
    /\ stepper.spc \in {"idle", "done"}
    /\ stepper.nInit < MaxInits
    /\ \E inp \in Vals :
         stepper' = [ExecAll([stepper EXCEPT !.input = inp], InitializeBody(stepper))
                        EXCEPT !.nInit = @ + 1, !.spc = "idle", !.calls = <<>>,
                               !.repeated = (stepper.nInit > 0 /\ inp = stepper.input)]
    /\ UNCHANGED recipeVars

\* the caller calls advance(t, update_forcings), with or without a callback
StAdvance ==
    /\ stepper.spc \in {"idle", "done"}
    /\ stepper.nCalls < MaxSteps
    /\ \E c \in BOOLEAN :
         stepper' = [stepper EXCEPT
                        !.cb = c, !.spc = "run", !.sip = 1, !.calls = <<>>,
                        !.t = IF stepper.nCalls = 0 THEN FZero ELSE FAdd(@, StepperDt),
                        !.nCalls = @ + 1, !.nInit = 0, !.input = 0,
                        !.repeated = FALSE, !.k1 = RInt(0),
                        !.solution_n = stepper.solution, !.fields_n = stepper.fields,
                        !.solution_old_n = stepper.solution_old]
    /\ UNCHANGED recipeVars

\* the statement advance is about to run
AtStmt(op) ==
    /\ stepper.spc = "run"
    /\ stepper.sip <= Len(AdvanceBody(stepper))
    /\ AdvanceBody(stepper)[stepper.sip].op = op
CurrentStmt == AdvanceBody(stepper)[stepper.sip]

\* the time handed to the forcing callback by statement s
ForcingTime(st, s) ==
    IF s.a = "t + dt" THEN FAdd(st.t, StepperDt)
    ELSE FAdd(st.t, FMul(FromInt(s.c), StepperDt))

\* the guarded callback: it may set the forcing fields to any value
StForcing ==
    /\ AtStmt("update_forcings")
    /\ IF stepper.cb
       THEN \E f \in Vals :
              stepper' = [stepper EXCEPT
                            !.fields = f, !.sip = @ + 1,
                            !.calls = Append(@, SEv(CurrentStmt,
                                                    ForcingTime(stepper, CurrentStmt)))]
       ELSE stepper' = [stepper EXCEPT !.sip = @ + 1]
    /\ UNCHANGED recipeVars

\* the statements that use what only initialize creates: mass_matrix or
\* lin_solver of LeapFrogAM3, lin_solver of SSPRK22ALE
UsesInitialized(s) ==
    \/ s.op = "solve" /\ s.a \in {"_solve_system", "lin_solver"}
    \/ s.op = "assemble" /\ s.b = "lin_solver.A"

\* an assignment, an assembly or the shift of the old fields
StStatement ==
    /\ stepper.spc = "run"
    /\ stepper.sip <= Len(AdvanceBody(stepper))
    /\ CurrentStmt.op \in {"assign", "shift_fields", "assemble", "incr",
                           "stage_one", "stage_two"}
    /\ UsesInitialized(CurrentStmt) => stepper.ready
    /\ stepper' = [Exec(stepper, CurrentStmt) EXCEPT
                      !.sip = @ + 1, !.calls = Append(@, SEv(CurrentStmt, FZero)),
                      !.k1 = IF CurrentStmt.op = "stage_one"
                             THEN stepper.tendency ELSE @]
    /\ UNCHANGED recipeVars

\* a solve that returns: it may leave any value in the function it solves for
StSolve ==
    /\ AtStmt("solve")
    /\ UsesInitialized(CurrentStmt) => stepper.ready
    /\ \E v \in Vals :
         stepper' = [Write(stepper, CurrentStmt.b, v) EXCEPT
                        !.sip = @ + 1,
                        !.calls = Append(@, SEv(CurrentStmt, FZero))]
    /\ UNCHANGED recipeVars

\* a solve that raises
StSolveFails ==
    /\ AtStmt("solve")
    /\ UsesInitialized(CurrentStmt) => stepper.ready
    /\ stepper' = [stepper EXCEPT
                      !.spc = "raised", !.err = "ConvergenceError",
                      !.calls = Append(@, SEv(CurrentStmt, FZero))]
    /\ UNCHANGED recipeVars

\* a statement that reads an attribute initialize has not created yet
StMissing ==
    /\ stepper.spc = "run"
    /\ stepper.sip <= Len(AdvanceBody(stepper))
    /\ UsesInitialized(CurrentStmt)
    /\ ~stepper.ready
    /\ stepper' = [stepper EXCEPT !.spc = "raised", !.err = "AttributeError"]
    /\ UNCHANGED recipeVars

\* ForwardEuler.advance reads dt, which it does not bind: NameError unless
\* the module's star import provides the name
StReadName ==
    /\ AtStmt("name")
    /\ \/ stepper' = [stepper EXCEPT !.spc = "raised", !.err = "NameError"]
       \/ stepper' = [stepper EXCEPT !.sip = @ + 1]
    /\ UNCHANGED recipeVars

\* advance returns
StReturn ==
    /\ stepper.spc = "run"
    /\ stepper.sip > Len(AdvanceBody(stepper))
    /\ stepper' = [stepper EXCEPT !.spc = "done"]
    /\ UNCHANGED recipeVars

(***************************************************************************)
(* Constructors.                                                           *)
(***************************************************************************)
\* self.dt_frac, self.start_frac as written in the constructor
DtFracTable ==
    <<FOne, FDiv(FOne, FromInt(4)), FDiv(FromInt(2), FromInt(3))>>
StartFracTable ==
    <<FZero, FDiv(FOne, FromInt(4)), FDiv(FOne, FromInt(3))>>

\* stage_w with prev_end_time taken as the previous step's length alone
StageWeightNoStart(df, sf, j) ==
    IF j = 1 THEN FSub(FOne, sf[1])
    ELSE FMul(df[j - 1], FSub(FOne, sf[j]))

\* one entry of self.stage_w: the first entry, then the loop body
StageWeight(df, sf, j) ==
    IF j = 1 THEN FSub(FOne, sf[1])
    ELSE FMul(FAdd(sf[j - 1], df[j - 1]), FSub(FOne, sf[j]))
\* self.stage_w
StageWTable(df, sf) == [j \in 1..Len(df) |-> StageWeight(df, sf, j)]

\* the timeStepper_* attributes the constructor of recipe r creates
Steppers(r, o) ==
    {"timeStepper2d", "timeStepper_mom3d"}
    \cup (IF o["solveSalt"] THEN {"timeStepper_salt3d"} ELSE {})
    \cup (IF o["solveVertDiffusion"] /\ r # "coupledSSPIMEX"
          THEN {"timeStepper_vmom3d"} ELSE {})
    \cup (IF o["useTurbulence"] /\ r \in {"coupledSSPIMEX", "coupledSSPRKSemiImplicit"}
          THEN {"timeStepper_tke3d", "timeStepper_psi3d"} ELSE {})

\* a constructor that accepts the vertical-momentum equation silently
CtorAccepts(r, o) == FALSE

\* coupledSSPIMEX.__init__ raises when solveVertDiffusion is set
CtorRaises(r, o) == r = "coupledSSPIMEX" /\ o["solveVertDiffusion"]

\* stage count of the three-stage steppers (len(self.dt_frac), SSPRK33Stage.nstages)
NStagesSSPRK == 3
StageCounts(r) ==
    IF r = "coupledSSPIMEX" THEN 1..MaxNStages
    ELSE IF r = "coupledSSPRK" THEN 1..1
    ELSE {NStagesSSPRK}

\* how the constructor of recipe r can end.  coupledSSPRK.__init__ calls the
\* bare name SSPRK33, bound only if the star import of utility provides it
CtorOutcomes(r, o) ==
    IF CtorRaises(r, o) THEN {"ctor_raised"}
    ELSE IF r = "coupledSSPRK" THEN {"ctor_raised", "idle"}
    ELSE {"idle"}

NoFlags == [do2DCoupling |-> FALSE, doVertDiffusion |-> FALSE, doALEUpdate |-> FALSE,
            doStabParams |-> FALSE, doTurbulence |-> FALSE]

\* the state after the constructor, for a configuration drawn from the
\* recipes rs, option records os and step pairs ps
ConstructedRecipe(rs, os, ps) ==
    /\ recipe \in rs
    /\ options \in os
    /\ \E p \in ps : solver_dt = p[1] /\ solver_dt_2d = p[2]
    /\ nStages \in StageCounts(recipe)
    /\ dt_frac = IF recipe \in TableRecipes THEN DtFracTable ELSE <<>>
    /\ start_frac = IF recipe \in TableRecipes THEN StartFracTable ELSE <<>>
    /\ stage_w = IF recipe \in TableRecipes
                 THEN StageWTable(DtFracTable, StartFracTable) ELSE <<>>
    /\ initialized = FALSE
    /\ M = <<>>
    /\ dt_2d = <<>>
    /\ stepperInit = {}
    /\ pc \in CtorOutcomes(recipe, options)
    /\ t = FZero
    /\ k = 0
    /\ ip = 1
    /\ isub = 0
    /\ jp = 1
    /\ flags = NoFlags
    /\ caller = "advance"
    /\ log = <<>>
    /\ err = IF pc # "ctor_raised" THEN "none"
             ELSE IF recipe = "coupledSSPRK" THEN "NameError" ELSE "Exception"
    /\ nAdvance = 0

\* the coupled integrator alone: the stand-alone stepper is left unused
Constructed(rs, os, ps) ==
    /\ ConstructedRecipe(rs, os, ps)
    /\ functions = StartFunctions
    /\ pipe = NoRuns(StartFunctions)
    /\ equation = NoEquation
    /\ stepper = NewStepper("CrankNicolson", 1, TRUE, 0, 0)

Init == Constructed(Recipes, OptionSets, StepPairs)

\* a logged call: its name, the stage that issued it, its arguments and its caller
\* (by: "advance", or "pipeline" for a call made under _updateAllDependencies)
Ev(op, kk, tt, dd, ww) ==
    [op |-> op, k |-> kk, t |-> tt, dt |-> dd, w |-> ww, by |-> "advance"]
\* a logged call that takes no time arguments
Call(op, kk) == Ev(op, kk, FZero, FZero, FZero)
\* a call made by a statement of _updateAllDependencies
PCall(op, kk) ==
    [op |-> op, k |-> kk, t |-> FZero, dt |-> FZero, w |-> FZero, by |-> "pipeline"]

\* the recipes with sub-cycle tables, over the grid of step sizes
InitSteps == Constructed(TableRecipes, {NoOptions}, StepSizes \X StepSizes)

(***************************************************************************)
(* initialize                                                              *)
(***************************************************************************)
\* M computed from the whole outer step, the stage's fraction left out
SubCycleCountWholeStep(f, dt, dt2) == FCeil(FDiv(dt, dt2))

\* M of one stage: int(np.ceil(f*self.solver.dt/self.solver.dt_2d))
SubCycleCount(f, dt, dt2) == FCeil(FDiv(FMul(f, dt), dt2))
\* the inner step taken to be the target step
SubCycleStepTarget(f, dt, dt2) == dt2

\* dt of one stage: f*self.solver.dt/M
SubCycleStep(f, dt, dt2) == FDiv(FMul(f, dt), FromInt(SubCycleCount(f, dt, dt2)))

\* the sub-steppers whose initialize the recipe's initialize calls
InitializedBy(o) ==
    {"timeStepper2d", "timeStepper_mom3d"}
    \cup (IF o["solveSalt"] THEN {"timeStepper_salt3d"} ELSE {})
    \cup (IF o["solveVertDiffusion"] THEN {"timeStepper_vmom3d"} ELSE {})

\* initialize that forgets to set self._initialized
DoInitializeKeepsFlag ==
    /\ stepperInit' = stepperInit \cup InitializedBy(options)
    /\ M' = IF recipe \in TableRecipes
            THEN [j \in 1..Len(dt_frac) |->
                     SubCycleCount(dt_frac[j], solver_dt, solver_dt_2d)]
            ELSE M
    /\ dt_2d' = IF recipe \in TableRecipes
                THEN [j \in 1..Len(dt_frac) |->
                         SubCycleStep(dt_frac[j], solver_dt, solver_dt_2d)]
                ELSE dt_2d
    /\ UNCHANGED initialized

\* initialize without "self.M = []" and "self.dt_2d = []"
DoInitializeAppends ==
    /\ stepperInit' = stepperInit \cup InitializedBy(options)
    /\ M' = IF recipe \in TableRecipes
            THEN M \o [j \in 1..Len(dt_frac) |->
                         SubCycleCount(dt_frac[j], solver_dt, solver_dt_2d)]
            ELSE M
    /\ dt_2d' = IF recipe \in TableRecipes
                THEN dt_2d \o [j \in 1..Len(dt_frac) |->
                                 SubCycleStep(dt_frac[j], solver_dt, solver_dt_2d)]
                ELSE dt_2d
    /\ initialized' = TRUE

\* initialize that adds the sub-cycle counts to the counts of the call before
DoInitializeAccumulates ==
    /\ stepperInit' = stepperInit \cup InitializedBy(options)
    /\ M' = IF recipe \in TableRecipes
            THEN [j \in 1..Len(dt_frac) |->
                     SubCycleCount(dt_frac[j], solver_dt, solver_dt_2d)
                       + (IF M = <<>> THEN 0 ELSE M[j])]
            ELSE M
    /\ dt_2d' = IF recipe \in TableRecipes
                THEN [j \in 1..Len(dt_frac) |->
                         SubCycleStep(dt_frac[j], solver_dt, solver_dt_2d)]
                ELSE dt_2d
    /\ initialized' = TRUE

\* the effect of self.initialize()
DoInitialize ==
    /\ stepperInit' = stepperInit \cup InitializedBy(options)
    /\ M' = IF recipe \in TableRecipes
            THEN [j \in 1..Len(dt_frac) |->
                     SubCycleCount(dt_frac[j], solver_dt, solver_dt_2d)]
            ELSE M
    /\ dt_2d' = IF recipe \in TableRecipes
                THEN [j \in 1..Len(dt_frac) |->
                         SubCycleStep(dt_frac[j], solver_dt, solver_dt_2d)]
                ELSE dt_2d
    /\ initialized' = TRUE

\* the caller calls initialize() before the first advance
Initialize ==
    /\ pc = "idle"
    /\ nAdvance = 0
    /\ recipe # "coupledSSPRK"
    /\ Len(log) < MaxInits
    /\ DoInitialize
    /\ log' = Append(log, Call("initialize", 0))
    /\ UNCHANGED <<functions, stepper, equation, pipe, config, tables, pc, t, k, ip, isub, jp, flags,
                   caller, err, nAdvance>>

\* coupledSSPRK.initialize: after the first two sub-steppers it reads
\* self.options.options, which the options object does not have, and raises
\* before _initialized is set
InitializeSSPRK ==
    /\ pc = "idle"
    /\ nAdvance = 0
    /\ recipe = "coupledSSPRK"
    /\ err = "none"
    /\ stepperInit' = stepperInit \cup {"timeStepper2d", "timeStepper_mom3d"}
    /\ err' = "AttributeError"
    /\ UNCHANGED <<functions, stepper, equation, pipe, config, tables, initialized, M, dt_2d, pc, t, k, ip, isub, jp,
                   flags, caller, log, nAdvance>>

(***************************************************************************)
(* advance: the stage loop.  One action per statement of the loop body;    *)
(* the statement at position ip of StageBody(recipe) is the one to run.    *)
(***************************************************************************)
\* the stage loop with the momentum solve ahead of the tracer solve
StageBodyMomentumFirst(r) ==
    IF r = "coupledSSPIMEX"
    THEN <<"momentumEq", "saltEq", "turbulenceAdvection", "mode2d",
           "turbulence", "_updateAllDependencies">>
    ELSE IF r = "coupledSSPRKSemiImplicit"
    THEN <<"momentumEq", "saltEq", "turbulenceAdvection", "mode2d",
           "_updateAllDependencies">>
    ELSE <<"momentumEq", "saltEq", "mode2d", "_updateAllDependencies">>

\* coupledSSPRK.advance with the tracer advance ahead of the momentum advance
StageBodyTracerFirst(r) ==
    CASE r = "coupledSSPRKSync" ->
            <<"saltEq", "momentumEq", "mode2d", "_updateAllDependencies">>
      [] r = "coupledSSPIMEX" ->
            <<"saltEq", "turbulenceAdvection", "momentumEq", "mode2d",
              "turbulence", "_updateAllDependencies">>
      [] r = "coupledSSPRKSemiImplicit" ->
            <<"saltEq", "turbulenceAdvection", "momentumEq", "mode2d",
              "_updateAllDependencies">>
      [] r = "coupledSSPRKSingleMode" ->
            <<"saltEq", "momentumEq", "mode2d", "_updateAllDependencies">>
      [] r = "coupledSSPRK" ->
            <<"ssprk.mode2d", "ssprk.aux_elev3d", "ssprk._updateMovingMesh",
              "ssprk._updateBottomFriction", "ssprk._updateBaroclinicity",
              "ssprk.saltEq", "ssprk.momentumEq", "ssprk.vert_diffusion",
              "ssprk._updateVerticalVelocity", "ssprk._updateMeshVelocity",
              "ssprk._update2DCoupling">>

\* the statements of one iteration of the stage loop, in source order
StageBody(r) ==
    CASE r = "coupledSSPRKSync" ->
            <<"saltEq", "momentumEq", "mode2d", "_updateAllDependencies">>
      [] r = "coupledSSPIMEX" ->
            <<"saltEq", "turbulenceAdvection", "momentumEq", "mode2d",
              "turbulence", "_updateAllDependencies">>
      [] r = "coupledSSPRKSemiImplicit" ->
            <<"saltEq", "turbulenceAdvection", "momentumEq", "mode2d",
              "_updateAllDependencies">>
      [] r = "coupledSSPRKSingleMode" ->
            <<"saltEq", "momentumEq", "mode2d", "_updateAllDependencies">>
      [] r = "coupledSSPRK" ->
            <<"ssprk.mode2d", "ssprk.aux_elev3d", "ssprk._updateMovingMesh",
              "ssprk._updateBottomFriction", "ssprk._updateBaroclinicity",
              "ssprk.momentumEq", "ssprk.vert_diffusion",
              "ssprk._updateVerticalVelocity", "ssprk._updateMeshVelocity",
              "ssprk.saltEq", "ssprk._update2DCoupling">>

\* lastStep taken to hold from the second stage on
LastStepFromSecond(r, kk, n) == kk >= 1

\* lastStep of stage kk
LastStep(r, kk, n) == IF r = "coupledSSPIMEX" THEN kk = n - 1 ELSE kk = 2

\* every recipe passing the same five arguments, all equal to lastStep
FlagsForUniform(r, kk, n) ==
    [doVertDiffusion |-> LastStep(r, kk, n),
     do2DCoupling    |-> LastStep(r, kk, n),
     doALEUpdate     |-> LastStep(r, kk, n),
     doStabParams    |-> LastStep(r, kk, n),
     doTurbulence    |-> LastStep(r, kk, n)]

\* the keyword arguments advance passes to _updateAllDependencies in stage kk
\* (an argument that is not passed takes its default, False)
FlagsFor(r, kk, n) ==
    CASE r = "coupledSSPIMEX" ->
            [doVertDiffusion |-> FALSE,
             do2DCoupling    |-> LastStep(r, kk, n),
             doALEUpdate     |-> LastStep(r, kk, n),
             doStabParams    |-> LastStep(r, kk, n),
             doTurbulence    |-> FALSE]
      [] r = "coupledSSPRKSingleMode" ->
            [doVertDiffusion |-> LastStep(r, kk, n),
             do2DCoupling    |-> TRUE,
             doALEUpdate     |-> LastStep(r, kk, n),
             doStabParams    |-> LastStep(r, kk, n),
             doTurbulence    |-> LastStep(r, kk, n)]
      [] OTHER ->
            [doVertDiffusion |-> LastStep(r, kk, n),
             do2DCoupling    |-> LastStep(r, kk, n),
             doALEUpdate     |-> LastStep(r, kk, n),
             doStabParams    |-> LastStep(r, kk, n),
             doTurbulence    |-> LastStep(r, kk, n)]

\* the step size the recipe passes to the stage solves
StageDt(r) == IF r = "coupledSSPRKSingleMode" THEN solver_dt_2d ELSE solver_dt

\* whether the recipe's advance starts with "if not self._initialized"
ChecksInitialized(r) == r \notin {"coupledSSPRKSingleMode", "coupledSSPRK"}

AtStatement(name) ==
    /\ pc = "stage"
    /\ StageBody(recipe)[ip] = name

\* an exception that is recorded while advance carries on
RaiseAndContinue(e) ==
    /\ pc' = pc
    /\ err' = e

\* an exception leaves advance
Raise(e) ==
    /\ pc' = "raised"
    /\ err' = e

\* the caller calls advance(t, dt): the first statements, up to the stage loop
Advance ==
    /\ pc \in {"idle", "done"}
    /\ nAdvance < MaxSteps
    /\ nAdvance' = nAdvance + 1
    /\ t' = IF pc = "done" THEN FAdd(t, solver_dt) ELSE t
    /\ IF ChecksInitialized(recipe) /\ ~initialized
       THEN DoInitialize
       ELSE UNCHANGED <<stepperInit, M, dt_2d, initialized>>
    /\ log' = (IF ChecksInitialized(recipe) /\ ~initialized
               THEN <<Call("initialize", 0)>> ELSE <<>>)
              \o (IF recipe = "coupledSSPRKSync"
                  THEN <<Call("sol2d_n.assign", 0)>> ELSE <<>>)
    /\ functions' = IF recipe = "coupledSSPRKSync"
                     THEN SnapshotSol2d(functions) ELSE functions
    /\ pc' = "stage"
    /\ k' = 0
    /\ ip' = 1
    /\ UNCHANGED <<stepper, equation, pipe, config, tables, isub, jp, flags, caller, err>>

\* with timed_region('saltEq')
SaltEq ==
    /\ AtStatement("saltEq")
    /\ log' = log
         \o (IF options["solveSalt"]
             THEN <<Ev("timeStepper_salt3d.solveStage", k, t, StageDt(recipe), FZero)>>
             ELSE <<>>)
         \o (IF /\ options["solveSalt"]
                /\ options["useLimiterForTracers"]
                /\ (recipe = "coupledSSPIMEX" => LastStep(recipe, k, nStages))
             THEN <<Call("tracerLimiter.apply(salt3d)", k)>>
             ELSE <<>>)
    /\ functions' = IF options["solveSalt"] THEN SolveSalt3d(functions) ELSE functions
    /\ ip' = ip + 1
    /\ UNCHANGED <<stepper, equation, pipe, config, tables, initialized, M, dt_2d, stepperInit, pc, t, k,
                   isub, jp, flags, caller, err, nAdvance>>

\* with timed_region('turbulenceAdvection'): no constructor creates
\* timeStepper_tkeAdvEq, so reading the attribute raises
TurbulenceAdvection ==
    /\ AtStatement("turbulenceAdvection")
    /\ IF options["useTurbulenceAdvection"]
       THEN /\ Raise("AttributeError")
            /\ UNCHANGED <<ip, log>>
       ELSE /\ ip' = ip + 1
            /\ UNCHANGED <<pc, err, log>>
    /\ UNCHANGED <<functions, stepper, equation, pipe, config, tables, initialized, M, dt_2d, stepperInit, t, k,
                   isub, jp, flags, caller, nAdvance>>

\* with timed_region('momentumEq')
MomentumEq ==
    /\ AtStatement("momentumEq")
    /\ log' = Append(log, Ev("timeStepper_mom3d.solveStage", k, t, StageDt(recipe), FZero))
    /\ functions' = SolveUv3d(functions)
    /\ ip' = ip + 1
    /\ UNCHANGED <<stepper, equation, pipe, config, tables, initialized, M, dt_2d, stepperInit, pc, t, k,
                   isub, jp, flags, caller, err, nAdvance>>

\* coupledSSPRKSync, with timed_region('mode2d'): the statements before the loop
Mode2dStart ==
    /\ AtStatement("mode2d")
    /\ recipe = "coupledSSPRKSync"
    /\ log' = Append(log, Ev("sol2d.assign", k, FZero, FZero, stage_w[k + 1]))
    /\ functions' = BlendSol2d(functions, stage_w[k + 1])
    /\ isub' = 0
    /\ pc' = "mode2d"
    /\ UNCHANGED <<stepper, equation, pipe, config, tables, initialized, M, dt_2d, stepperInit, t, k, ip,
                   jp, flags, caller, err, nAdvance>>

\* t_rhs taken at the end of the stage's window instead of its start
TRhsFromDtFrac(tt, kk) == FAdd(tt, FMul(dt_frac[kk + 1], solver_dt))

\* t_rhs = t + self.start_frac[k]*self.solver.dt
TRhs(tt, kk) == FAdd(tt, FMul(start_frac[kk + 1], solver_dt))
\* the sub-steps counted from the start of the macro step
SubStepTimeFromStepStart(tt, kk, i) == FAdd(tt, FMul(FromInt(i), dt_2d[kk + 1]))
\* the start time of sub-step i: t_rhs + i*dt_2d
SubStepTime(tt, kk, i) == FAdd(TRhs(tt, kk), FMul(FromInt(i), dt_2d[kk + 1]))

\* coupledSSPRKSync: one iteration of "for i in range(self.M[k])"
Mode2dSubStep ==
    /\ pc = "mode2d"
    /\ isub < M[k + 1]
    /\ log' = Append(log, Ev("timeStepper2d.advance", k, SubStepTime(t, k, isub),
                             dt_2d[k + 1], FZero))
    /\ functions' = Solve2d(functions)
    /\ isub' = isub + 1
    /\ IF isub + 1 < M[k + 1]
       THEN UNCHANGED <<pc, ip>>
       ELSE pc' = "stage" /\ ip' = ip + 1
    /\ UNCHANGED <<stepper, equation, pipe, config, tables, initialized, M, dt_2d, stepperInit, t, k,
                   jp, flags, caller, err, nAdvance>>

\* the stage solve of the barotropic mode always given the outer step
Mode2dStageOuterStep ==
    /\ AtStatement("mode2d")
    /\ recipe # "coupledSSPRKSync"
    /\ log' = Append(log, Ev("timeStepper2d.solveStage", k, t, solver_dt, FZero))
    /\ functions' = Solve2d(functions)
    /\ ip' = ip + 1
    /\ UNCHANGED <<stepper, equation, pipe, config, tables, initialized, M, dt_2d, stepperInit, pc, t, k,
                   isub, jp, flags, caller, err, nAdvance>>

\* the other recipes, with timed_region('mode2d'): one stage solve
Mode2dStage ==
    /\ AtStatement("mode2d")
    /\ recipe # "coupledSSPRKSync"
    /\ log' = Append(log, Ev("timeStepper2d.solveStage", k, t, StageDt(recipe), FZero))
    /\ functions' = Solve2d(functions)
    /\ ip' = ip + 1
    /\ UNCHANGED <<stepper, equation, pipe, config, tables, initialized, M, dt_2d, stepperInit, pc, t, k,
                   isub, jp, flags, caller, err, nAdvance>>

\* coupledSSPIMEX, with timed_region('turbulence')
TurbulenceStage ==
    /\ AtStatement("turbulence")
    /\ log' = log
         \o (IF options["useTurbulence"]
             THEN <<Ev("timeStepper_psi3d.solveStage", k, t, solver_dt, FZero),
                    Ev("timeStepper_tke3d.solveStage", k, t, solver_dt, FZero)>>
                  \o (IF options["useLimiterForTracers"]
                      THEN <<Call("tracerLimiter.apply(tke3d)", k),
                             Call("tracerLimiter.apply(psi3d)", k)>>
                      ELSE <<>>)
                  \o <<Call("glsModel.postprocess", k), Call("glsModel.preprocess", k)>>
             ELSE <<>>)
    /\ functions' = IF options["useTurbulence"]
                     THEN SolveTurbulence(functions) ELSE functions
    /\ ip' = ip + 1
    /\ UNCHANGED <<stepper, equation, pipe, config, tables, initialized, M, dt_2d, stepperInit, pc, t, k,
                   isub, jp, flags, caller, err, nAdvance>>

\* the calls one statement of coupledSSPRK.advance makes
SSPRKCalls(name) ==
    CASE name = "ssprk.mode2d" ->
            <<Ev("timeStepper2d.advance", 0, t, solver_dt_2d, FZero)>>
      [] name = "ssprk.aux_elev3d" ->
            <<Call("copy2dFieldTo3d(elev_n)", 0), Call("copy2dFieldTo3d(elev_nph)", 0)>>
      [] name = "ssprk._updateMovingMesh" ->
            <<Call("_updateMovingMesh", 0)>>
            \o (IF options["useALEMovingMesh"]
                THEN <<Call("updateCoordinates", 0), Call("computeElemHeight", 0)>>
                ELSE <<>>)
      [] name = "ssprk._updateBottomFriction" ->
            <<Call("_updateBottomFriction", 0)>>
            \o (IF options["useBottomFriction"]
                THEN <<Call("computeBottomFriction", 0)>> ELSE <<>>)
            \o (IF options["useParabolicViscosity"]
                THEN <<Call("computeParabolicViscosity", 0)>> ELSE <<>>)
      [] name = "ssprk._updateBaroclinicity" ->
            <<Call("_updateBaroclinicity", 0)>>
            \o (IF options["baroclinic"]
                THEN <<Call("computeBaroclinicHead", 0)>> ELSE <<>>)
      [] name = "ssprk.momentumEq" ->
            <<Ev("timeStepper_mom3d.advance", 0, t, solver_dt, FZero)>>
      [] name = "ssprk.vert_diffusion" ->
            IF options["solveVertDiffusion"]
            THEN <<Ev("timeStepper_vmom3d.advance", 0, t, solver_dt, FZero)>>
            ELSE <<>>
      [] name = "ssprk._updateVerticalVelocity" ->
            <<Call("_updateVerticalVelocity", 0), Call("computeVertVelocity", 0)>>
      [] name = "ssprk._updateMeshVelocity" ->
            <<Call("_updateMeshVelocity", 0)>>
            \o (IF options["useALEMovingMesh"]
                THEN <<Call("computeMeshVelocity", 0)>> ELSE <<>>)
      [] name = "ssprk.saltEq" ->
            IF options["solveSalt"]
            THEN <<Ev("timeStepper_salt3d.advance", 0, t, solver_dt, FZero)>>
            ELSE <<>>
      [] name = "ssprk._update2DCoupling" ->
            <<Call("_update2DCoupling", 0), Call("computeVerticalIntegral(uv3d)", 0),
              Call("uv2d_start.assign(uvDav2d)", 0)>>

\* what one statement of coupledSSPRK.advance does to the fields
SSPRKFields(name, f) ==
    CASE name = "ssprk.mode2d" -> Solve2d(f)
      [] name = "ssprk.aux_elev3d" -> Elevation3d(f)
      [] name = "ssprk._updateMovingMesh" -> MovingMesh(f, options)
      [] name = "ssprk._updateBottomFriction" -> BottomFriction(f, options)
      [] name = "ssprk._updateBaroclinicity" -> Baroclinicity(f, options)
      [] name = "ssprk.momentumEq" -> SolveUv3d(f)
      [] name = "ssprk.vert_diffusion" ->
            IF options["solveVertDiffusion"] THEN SolveUv3d(f) ELSE f
      [] name = "ssprk._updateVerticalVelocity" -> VerticalVelocity(f)
      [] name = "ssprk._updateMeshVelocity" -> MeshVelocity(f, options)
      [] name = "ssprk.saltEq" ->
            IF options["solveSalt"] THEN SolveSalt3d(f) ELSE f
      [] name = "ssprk._update2DCoupling" -> CouplingSSPRK(f)

\* coupledSSPRK.advance: the statement at position ip; the last one ends advance
SSPRKStatement ==
    /\ pc = "stage"
    /\ recipe = "coupledSSPRK"
    /\ log' = log \o SSPRKCalls(StageBody(recipe)[ip])
    /\ functions' = SSPRKFields(StageBody(recipe)[ip], functions)
    /\ IF ip < Len(StageBody(recipe))
       THEN ip' = ip + 1 /\ UNCHANGED pc
       ELSE pc' = "done" /\ UNCHANGED ip
    /\ UNCHANGED <<stepper, equation, pipe, config, tables, initialized, M, dt_2d, stepperInit, t, k,
                   isub, jp, flags, caller, err, nAdvance>>

\* the call self._updateAllDependencies(...) that ends the stage
UpdateAllDependencies ==
    /\ AtStatement("_updateAllDependencies")
    /\ flags' = FlagsFor(recipe, k, nStages)
    /\ log' = Append(log, Call("_updateAllDependencies", k))
    /\ caller' = "advance"
    /\ pc' = "pipeline"
    /\ jp' = 1
    /\ pipe' = [pipe EXCEPT !.entry = functions]
    /\ UNCHANGED <<functions, stepper, equation, config, tables, initialized, M, dt_2d, stepperInit, t, k, ip,
                   isub, err, nAdvance>>

\* every combination of the five keyword arguments
AllFlags == [{"do2DCoupling", "doVertDiffusion", "doALEUpdate", "doStabParams",
              "doTurbulence"} -> BOOLEAN]

\* _updateAllDependencies called on its own, with any arguments
CallPipeline ==
    /\ pc = "idle"
    /\ flags' \in AllFlags
    /\ caller' = "direct"
    /\ log' = <<Call("_updateAllDependencies", k)>>
    /\ pc' = "pipeline"
    /\ jp' = 1
    /\ pipe' = [pipe EXCEPT !.entry = functions]
    /\ UNCHANGED <<functions, stepper, equation, config, tables, initialized, M, dt_2d, stepperInit, t, k, ip,
                   isub, err, nAdvance>>

\* the statements of the stage body that issue a stepper solve
SolveStatement(name) ==
    \/ name = "saltEq" /\ options["solveSalt"]
    \/ name = "momentumEq"
    \/ name = "mode2d" /\ recipe # "coupledSSPRKSync"
    \/ name = "turbulence" /\ options["useTurbulence"]
    \/ name \in {"ssprk.mode2d", "ssprk.momentumEq"}
    \/ name = "ssprk.vert_diffusion" /\ options["solveVertDiffusion"]
    \/ name = "ssprk.saltEq" /\ options["solveSalt"]

\* a stepper's embedded solve fails to converge: the exception leaves advance
SolveFails ==
    /\ \/ pc = "stage" /\ SolveStatement(StageBody(recipe)[ip])
       \/ pc = "mode2d"
    /\ Raise("ConvergenceError")
    /\ log' = Append(log, Call("solve failed", k))
    /\ UNCHANGED <<functions, stepper, equation, pipe, config, tables, initialized, M, dt_2d, stepperInit, t, k, ip,
                   isub, jp, flags, caller, nAdvance>>

(***************************************************************************)
(* _updateAllDependencies: one action per statement, the statement at      *)
(* position jp of PipelineBody being the one to run.                       *)
(***************************************************************************)
\* _updateAllDependencies with the vertical velocity computed before the
\* 2D-3D coupling
PipelineBodySwapped ==
    <<"_update3dElevation", "_updateMovingMesh", "vert_diffusion",
      "_updateVerticalVelocity", "_update2DCoupling", "_updateTurbulence",
      "_updateMeshVelocity", "_updateBottomFriction", "_updateBaroclinicity",
      "_updateStabilizationParams">>

\* the statements of _updateAllDependencies, in source order
PipelineBody ==
    <<"_update3dElevation", "_updateMovingMesh", "vert_diffusion",
      "_update2DCoupling", "_updateVerticalVelocity", "_updateTurbulence",
      "_updateMeshVelocity", "_updateBottomFriction", "_updateBaroclinicity",
      "_updateStabilizationParams">>

AtPipeline(name) ==
    /\ pc = "pipeline"
    /\ PipelineBody[jp] = name

\* a direct invocation ends, normally or with the exception e: what it was
\* given, what it did and what it left
EndRun(e) ==
    IF caller = "direct"
    THEN [pipe EXCEPT !.runs = Append(@, [entry |-> pipe.entry, flags |-> flags,
                                          steps |-> log', exit |-> functions',
                                          err |-> e])]
    ELSE pipe

\* control after a pipeline statement: the next statement, or the return to
\* the caller: the stage loop, which starts the next stage or ends advance,
\* or the direct caller
PipelineNext ==
    IF jp < Len(PipelineBody)
    THEN /\ jp' = jp + 1
         /\ UNCHANGED <<pc, k, ip, pipe>>
    ELSE /\ jp' = 1
         /\ pipe' = EndRun("none")
         /\ IF caller = "advance" /\ k + 1 < nStages
            THEN pc' = "stage" /\ k' = k + 1 /\ ip' = 1
            ELSE pc' = "done" /\ UNCHANGED <<k, ip>>

\* what a pipeline statement that returns normally leaves unchanged
PipelineFrame ==
    UNCHANGED <<stepper, equation, config, tables, initialized, M, dt_2d, stepperInit, t, isub,
                flags, caller, err, nAdvance>>
\* what a pipeline statement that raises leaves unchanged
RaiseFrame ==
    UNCHANGED <<stepper, equation, config, tables, initialized, M, dt_2d, stepperInit, t, k, ip,
                isub, jp, flags, caller, nAdvance>>

\* self._update3dElevation()
Update3dElevation ==
    /\ AtPipeline("_update3dElevation")
    /\ log' = log \o <<PCall("_update3dElevation", k), PCall("copy2dFieldTo3d(elev2d)", k)>>
    /\ functions' = Elevation3d(functions)
    /\ PipelineNext
    /\ PipelineFrame

\* if doALEUpdate: self._updateMovingMesh()
UpdateMovingMesh ==
    /\ AtPipeline("_updateMovingMesh")
    /\ log' = log
         \o (IF flags.doALEUpdate THEN <<PCall("_updateMovingMesh", k)>> ELSE <<>>)
         \o (IF flags.doALEUpdate /\ options["useALEMovingMesh"]
             THEN <<PCall("updateCoordinates", k), PCall("computeElemHeight", k)>>
             ELSE <<>>)
    /\ functions' = IF flags.doALEUpdate THEN MovingMesh(functions, options) ELSE functions
    /\ PipelineNext
    /\ PipelineFrame

\* with timed_region('vert_diffusion'): the call's argument t is a name that
\* is bound neither in the method nor in the module, so evaluating it raises
VertDiffusion ==
    /\ AtPipeline("vert_diffusion")
    /\ IF flags.doVertDiffusion /\ options["solveVertDiffusion"]
       THEN /\ Raise(IF "timeStepper_vmom3d" \in Steppers(recipe, options)
                     THEN "NameError" ELSE "AttributeError")
            /\ UNCHANGED <<log, functions>>
            /\ pipe' = EndRun(err')
            /\ RaiseFrame
       ELSE /\ UNCHANGED <<log, functions>>
            /\ PipelineNext
            /\ PipelineFrame

\* if do2DCoupling: self._update2DCoupling(), overloaded by coupledSSPRKSingleMode
Update2DCoupling ==
    /\ AtPipeline("_update2DCoupling")
    /\ log' = log
         \o (IF flags.do2DCoupling
             THEN <<PCall("_update2DCoupling", k), PCall("computeVerticalIntegral(uv3d)", k)>>
                  \o (IF recipe = "coupledSSPRKSingleMode"
                      THEN <<PCall("uv2d.assign(uvDav2d)", k)>>
                      ELSE IF recipe = "coupledSSPRK"
                      THEN <<PCall("uv2d_start.assign(uvDav2d)", k)>>
                      ELSE <<PCall("uv3d -= uvDav3d", k), PCall("uv3d += uv2d", k)>>)
             ELSE <<>>)
    /\ functions' = IF flags.do2DCoupling THEN Coupling(recipe, functions) ELSE functions
    /\ PipelineNext
    /\ PipelineFrame

\* self._updateVerticalVelocity()
UpdateVerticalVelocity ==
    /\ AtPipeline("_updateVerticalVelocity")
    /\ log' = log \o <<PCall("_updateVerticalVelocity", k), PCall("computeVertVelocity", k)>>
    /\ functions' = VerticalVelocity(functions)
    /\ PipelineNext
    /\ PipelineFrame

\* if doTurbulence: self._updateTurbulence().  After preprocess() the call
\* timeStepper_psi3d.advance(t, ...) raises: the attribute is missing in the
\* recipes that create no turbulence steppers, and t is an unbound name
UpdateTurbulence ==
    /\ AtPipeline("_updateTurbulence")
    /\ IF flags.doTurbulence /\ options["useTurbulence"]
       THEN /\ log' = log \o <<PCall("_updateTurbulence", k), PCall("glsModel.preprocess", k)>>
            /\ Raise(IF "timeStepper_psi3d" \in Steppers(recipe, options)
                     THEN "NameError" ELSE "AttributeError")
            /\ UNCHANGED functions
            /\ pipe' = EndRun(err')
            /\ RaiseFrame
       ELSE /\ log' = log
                 \o (IF flags.doTurbulence THEN <<PCall("_updateTurbulence", k)>> ELSE <<>>)
            /\ UNCHANGED functions
            /\ PipelineNext
            /\ PipelineFrame

\* the mesh-velocity step made conditional on doALEUpdate
UpdateMeshVelocityGated ==
    /\ AtPipeline("_updateMeshVelocity")
    /\ log' = log
         \o (IF flags.doALEUpdate THEN <<PCall("_updateMeshVelocity", k)>> ELSE <<>>)
         \o (IF flags.doALEUpdate /\ options["useALEMovingMesh"]
             THEN <<PCall("computeMeshVelocity", k)>> ELSE <<>>)
    /\ functions' = IF flags.doALEUpdate THEN MeshVelocity(functions, options) ELSE functions
    /\ PipelineNext
    /\ PipelineFrame

\* self._updateMeshVelocity()
UpdateMeshVelocity ==
    /\ AtPipeline("_updateMeshVelocity")
    /\ log' = log
         \o <<PCall("_updateMeshVelocity", k)>>
         \o (IF options["useALEMovingMesh"]
             THEN <<PCall("computeMeshVelocity", k)>> ELSE <<>>)
    /\ functions' = MeshVelocity(functions, options)
    /\ PipelineNext
    /\ PipelineFrame

\* self._updateBottomFriction()
UpdateBottomFriction ==
    /\ AtPipeline("_updateBottomFriction")
    /\ log' = log
         \o <<PCall("_updateBottomFriction", k)>>
         \o (IF options["useBottomFriction"]
             THEN <<PCall("computeBottomFriction", k)>> ELSE <<>>)
         \o (IF options["useParabolicViscosity"]
             THEN <<PCall("computeParabolicViscosity", k)>> ELSE <<>>)
    /\ functions' = BottomFriction(functions, options)
    /\ PipelineNext
    /\ PipelineFrame

\* self._updateBaroclinicity()
UpdateBaroclinicity ==
    /\ AtPipeline("_updateBaroclinicity")
    /\ log' = log
         \o <<PCall("_updateBaroclinicity", k)>>
         \o (IF options["baroclinic"]
             THEN <<PCall("computeBaroclinicHead", k)>> ELSE <<>>)
    /\ functions' = Baroclinicity(functions, options)
    /\ PipelineNext
    /\ PipelineFrame

\* the stabilization step run whatever doStabParams is
UpdateStabilizationParamsUngated ==
    /\ AtPipeline("_updateStabilizationParams")
    /\ log' = log
         \o <<PCall("_updateStabilizationParams", k), PCall("computeVelMagnitude", k)>>
         \o (IF options["smagorinskyFactor"]
             THEN <<PCall("smagorinskyViscosity", k)>> ELSE <<>>)
         \o (IF options["saltJumpDiffFactor"]
             THEN <<PCall("computeHorizJumpDiffusivity", k)>> ELSE <<>>)
    /\ functions' = StabilizationParams(functions, options)
    /\ PipelineNext
    /\ PipelineFrame

\* if doStabParams: self._updateStabilizationParams()
UpdateStabilizationParams ==
    /\ AtPipeline("_updateStabilizationParams")
    /\ log' = log
         \o (IF flags.doStabParams
             THEN <<PCall("_updateStabilizationParams", k), PCall("computeVelMagnitude", k)>>
                  \o (IF options["smagorinskyFactor"]
                      THEN <<PCall("smagorinskyViscosity", k)>> ELSE <<>>)
                  \o (IF options["saltJumpDiffFactor"]
                      THEN <<PCall("computeHorizJumpDiffusivity", k)>> ELSE <<>>)
             ELSE <<>>)
    /\ functions' = IF flags.doStabParams
                     THEN StabilizationParams(functions, options) ELSE functions
    /\ PipelineNext
    /\ PipelineFrame

(***************************************************************************)
(* Specification.                                                          *)
(***************************************************************************)
Next ==
    \/ Initialize
    \/ InitializeSSPRK
    \/ Advance
    \/ SSPRKStatement
    \/ SaltEq
    \/ TurbulenceAdvection
    \/ MomentumEq
    \/ Mode2dStart
    \/ Mode2dSubStep
    \/ Mode2dStage
    \/ TurbulenceStage
    \/ UpdateAllDependencies
    \/ SolveFails
    \/ Update3dElevation
    \/ UpdateMovingMesh
    \/ VertDiffusion
    \/ Update2DCoupling
    \/ UpdateVerticalVelocity
    \/ UpdateTurbulence
    \/ UpdateMeshVelocity
    \/ UpdateBottomFriction
    \/ UpdateBaroclinicity
    \/ UpdateStabilizationParams

Spec == Init /\ [][Next]_vars

\* the pipeline called on its own with every combination of its arguments
OptionsPipeline ==
    {o \in OptionSets : ~o["solveSalt"] /\ ~o["useLimiterForTracers"]
                          /\ ~o["useTurbulenceAdvection"]}
InitPipeline ==
    Constructed(Recipes, OptionsPipeline, {<<FromInt(10), FromInt(3)>>})
NextPipeline ==
    \/ CallPipeline
    \/ Update3dElevation
    \/ UpdateMovingMesh
    \/ VertDiffusion
    \/ Update2DCoupling
    \/ UpdateVerticalVelocity
    \/ UpdateTurbulence
    \/ UpdateMeshVelocity
    \/ UpdateBottomFriction
    \/ UpdateBaroclinicity
    \/ UpdateStabilizationParams
SpecPipeline == InitPipeline /\ [][NextPipeline]_vars

\* initialize alone, over the grid of step sizes
NextSteps == Initialize
SpecSteps == InitSteps /\ [][NextSteps]_vars

\* one stepper of every scheme next to a coupled integrator of the Sync
\* recipe
InitStepper ==
    /\ ConstructedRecipe({"coupledSSPRKSync"}, {NoOptions},
                         {<<FromInt(10), FromInt(3)>>})
    /\ functions = StartFunctions
    /\ pipe = NoRuns(StartFunctions)
    /\ equation = NoEquation
    /\ \E s \in Schemes :
       \E n \in (IF s = "PressureProjectionPicard" THEN 1..MaxIter ELSE {1}) :
       \E nt \in (IF s \in GatedSchemes THEN BOOLEAN ELSE {TRUE}) :
       \E u \in Vals, f \in Vals :
          stepper = NewStepper(s, n, nt, u, f)
\* the stepper driven on its own, and initialize called on the integrator;
\* the two objects share no state, and the integrator is initialized before
\* the stepper is first called
NextStepper ==
    \/ stepper.nCalls = 0 /\ stepper.nInit = 0 /\ Initialize
    \/ StInitialize
    \/ StAdvance
    \/ StReadName
    \/ StForcing
    \/ StStatement
    \/ StSolve
    \/ StSolveFails
    \/ StMissing
    \/ StReturn
SpecStepper == InitStepper /\ [][NextStepper]_vars


(***************************************************************************)
(* Properties.                                                             *)
(***************************************************************************)
\* number of logged calls of op, and of op in stage kk
Count(op) == Cardinality({j \in 1..Len(log) : log[j].op = op})
CountAt(op, kk) == Cardinality({j \in 1..Len(log) : log[j].op = op /\ log[j].k = kk})
\* whether op has been logged
Called(op) == \E j \in 1..Len(log) : log[j].op = op

\* the pipeline step a logged call belongs to, numbered as the steps are
\* listed: elevation projection 1, moving mesh 2, vertical diffusion 3,
\* 2D-3D coupling 4, vertical velocity 5, turbulence 6, mesh velocity 7,
\* bottom friction 8, baroclinic head 9, stabilization parameters 10
StepRank(op) ==
    CASE op \in {"_update3dElevation", "copy2dFieldTo3d(elev2d)"} -> 1
      [] op \in {"_updateMovingMesh", "updateCoordinates", "computeElemHeight"} -> 2
      [] op \in {"timeStepper_vmom3d.advance"} -> 3
      [] op \in {"_update2DCoupling", "computeVerticalIntegral(uv3d)",
                 "uv2d.assign(uvDav2d)", "uv2d_start.assign(uvDav2d)",
                 "uv3d -= uvDav3d", "uv3d += uv2d"} -> 4
      [] op \in {"_updateVerticalVelocity", "computeVertVelocity"} -> 5
      [] op \in {"_updateTurbulence", "glsModel.preprocess", "glsModel.postprocess",
                 "timeStepper_psi3d.advance", "timeStepper_tke3d.advance"} -> 6
      [] op \in {"_updateMeshVelocity", "computeMeshVelocity"} -> 7
      [] op \in {"_updateBottomFriction", "computeBottomFriction",
                 "computeParabolicViscosity"} -> 8
      [] op \in {"_updateBaroclinicity", "computeBaroclinicHead"} -> 9
      [] op \in {"_updateStabilizationParams", "computeVelMagnitude",
                 "smagorinskyViscosity", "computeHorizJumpDiffusivity"} -> 10
      [] OTHER -> 0
\* the call that opens a step (the others are made inside it)
OpensStep(op) ==
    op \in {"_update3dElevation", "_updateMovingMesh", "timeStepper_vmom3d.advance",
            "_update2DCoupling", "_updateVerticalVelocity", "_updateTurbulence",
            "_updateMeshVelocity", "_updateBottomFriction", "_updateBaroclinicity",
            "_updateStabilizationParams"}

\* C1: in every invocation of the pipeline, whatever the five flags, the
\* first call is the elevation projection, and the steps that run do so in
\* the listed order: each call made by the pipeline follows the call that
\* invoked the pipeline or a call of the same or an earlier step, and a call
\* that opens a step follows only calls of strictly earlier steps.
C1_PipelineOrder ==
    \A j \in 1..Len(log) :
        /\ (log[j].op = "_updateAllDependencies" /\ j < Len(log))
               => log[j + 1].op = "_update3dElevation"
        /\ log[j].by = "pipeline"
               => /\ j > 1
                  /\ StepRank(log[j].op) >= 1
                  /\ \/ /\ log[j - 1].op = "_updateAllDependencies"
                        /\ log[j].op = "_update3dElevation"
                     \/ /\ log[j - 1].by = "pipeline"
                        /\ log[j - 1].k = log[j].k
                        /\ StepRank(log[j - 1].op) <= StepRank(log[j].op)
                        /\ OpensStep(log[j].op)
                               => StepRank(log[j - 1].op) < StepRank(log[j].op)

\* C1 witness: a direct invocation with all five flags true that ran through
\* to the stabilization parameters, with the moving mesh enabled
C1_Witness ==
    /\ pc = "done"
    /\ caller = "direct"
    /\ \A f \in DOMAIN flags : flags[f]
    /\ Called("updateCoordinates")
    /\ Called("_update2DCoupling")
    /\ Called("computeMeshVelocity")
    /\ Called("_updateStabilizationParams")

AllOrNothingRecipes == {"coupledSSPRKSync", "coupledSSPRKSemiImplicit"}

AllFlagsAre(b) == \A f \in DOMAIN flags : flags[f] = b

\* C4 as stated: in the three 3-stage recipes the pipeline is invoked with all
\* five flags true when k = 2 and all five false when k is 0 or 1.
C4_AllFlagsLastStageOnly ==
    (caller = "advance" /\ pc = "pipeline" /\ recipe # "coupledSSPIMEX")
        => AllFlagsAre(k = 2)

\* C4 amended: coupledSSPRKSync and coupledSSPRKSemiImplicit invoke the
\* pipeline with all five flags true when k = 2 and all five false when k is
\* 0 or 1; coupledSSPRKSingleMode passes do2DCoupling true in every stage and
\* the other four flags true exactly when k = 2.
C4_FlagsPerStage ==
    (caller = "advance" /\ pc = "pipeline")
        => /\ recipe \in {"coupledSSPRKSync", "coupledSSPRKSemiImplicit"}
                 => AllFlagsAre(k = 2)
           /\ recipe = "coupledSSPRKSingleMode"
                 => /\ flags.do2DCoupling
                    /\ flags.doVertDiffusion = (k = 2)
                    /\ flags.doALEUpdate = (k = 2)
                    /\ flags.doStabParams = (k = 2)
                    /\ flags.doTurbulence = (k = 2)

\* C4 witness: the pipeline of stage 0 of coupledSSPRKSingleMode, invoked
\* with do2DCoupling true and doALEUpdate false
C4_Witness ==
    /\ caller = "advance"
    /\ pc = "pipeline"
    /\ recipe = "coupledSSPRKSingleMode"
    /\ k = 0
    /\ flags.do2DCoupling
    /\ ~flags.doALEUpdate

\* C10: in every stage k of coupledSSPIMEX.advance the pipeline is invoked
\* with doVertDiffusion and doTurbulence false and with do2DCoupling,
\* doALEUpdate and doStabParams equal to (k = nStages - 1).
C10_IMEXFlags ==
    (caller = "advance" /\ pc = "pipeline" /\ recipe = "coupledSSPIMEX")
        => /\ ~flags.doVertDiffusion
           /\ ~flags.doTurbulence
           /\ flags.do2DCoupling = (k = nStages - 1)
           /\ flags.doALEUpdate = (k = nStages - 1)
           /\ flags.doStabParams = (k = nStages - 1)

\* C10 witness: the pipeline of the last of three stages of coupledSSPIMEX,
\* after pipelines of the earlier stages
C10_Witness ==
    /\ caller = "advance"
    /\ pc = "pipeline"
    /\ recipe = "coupledSSPIMEX"
    /\ nStages = 3
    /\ k = 2
    /\ flags.do2DCoupling
    /\ Count("_updateAllDependencies") = 3

\* the part of a stage of coupledSSPRKSync.advance a logged call belongs to:
\* tracer solve 1, momentum solve 2, barotropic sub-cycle 3, pipeline 4
\* (0: the statements before the stage loop, and a failed solve)
Phase(e) ==
    CASE e.by = "pipeline" -> 4
      [] e.op = "_updateAllDependencies" -> 4
      [] e.op \in {"sol2d.assign", "timeStepper2d.advance"} -> 3
      [] e.op = "timeStepper_mom3d.solveStage" -> 2
      [] e.op \in {"timeStepper_salt3d.solveStage", "tracerLimiter.apply(salt3d)"} -> 1
      [] OTHER -> 0

\* the call that opens a stage
FirstOfStage(e) ==
    IF options["solveSalt"] THEN e.op = "timeStepper_salt3d.solveStage"
    ELSE e.op = "timeStepper_mom3d.solveStage"

\* C5: one call of coupledSSPRKSync.advance runs the stages 0, 1, 2 in
\* ascending order and in each stage, in this order, the tracer solve (if
\* solveSalt), the momentum solve, the barotropic sub-cycle and one pipeline
\* invocation; the pipeline of stage k starts only after the last (M[k]-th)
\* barotropic sub-step of stage k, and stage k+1 starts only after the
\* pipeline of stage k has run to its end.
C5_SyncStageOrder ==
    (caller = "advance" /\ recipe = "coupledSSPRKSync")
        => /\ \A j \in 2..Len(log) :
                 LET a == log[j - 1]
                     b == log[j]
                 IN  Phase(b) > 0 =>
                       /\ b.k \in 0..2
                       /\ \/ Phase(a) = 0 /\ b.k = 0 /\ FirstOfStage(b)
                          \/ a.k = b.k /\ Phase(a) > 0 /\ Phase(a) <= Phase(b)
                                       /\ ~(b.op = "timeStepper_salt3d.solveStage")
                          \/ /\ b.k = a.k + 1
                             /\ a.by = "pipeline"
                             /\ StepRank(a.op) >= 9
                             /\ FirstOfStage(b)
                       /\ b.op = "timeStepper_mom3d.solveStage"
                             => (options["solveSalt"] <=> Phase(a) = 1)
                       /\ b.op = "sol2d.assign"
                             => a.op = "timeStepper_mom3d.solveStage"
                       /\ b.op = "timeStepper2d.advance"
                             => a.op \in {"sol2d.assign", "timeStepper2d.advance"}
                       /\ b.op = "_updateAllDependencies"
                             => /\ a.op = "timeStepper2d.advance"
                                /\ CountAt("timeStepper2d.advance", b.k) = M[b.k + 1]
           /\ \A kk \in 0..2 :
                 /\ CountAt("_updateAllDependencies", kk) <= 1
                 /\ CountAt("timeStepper_mom3d.solveStage", kk) <= 1
                 /\ CountAt("timeStepper_salt3d.solveStage", kk) <= 1
           /\ pc = "done"
                 => /\ Count("_updateAllDependencies") = 3
                    /\ Count("timeStepper_mom3d.solveStage") = 3
                    /\ Count("timeStepper_salt3d.solveStage")
                          = (IF options["solveSalt"] THEN 3 ELSE 0)

\* C5 witness: a completed macro step of coupledSSPRKSync with the tracer
\* solved and limited in each of the three stages
C5_Witness ==
    /\ caller = "advance"
    /\ pc = "done"
    /\ recipe = "coupledSSPRKSync"
    /\ Count("timeStepper_salt3d.solveStage") = 3
    /\ Count("tracerLimiter.apply(salt3d)") = 3
    /\ Count("timeStepper2d.advance") = 8

\* position in the log of the statement that opens the sub-cycle of stage kk
SubCycleStart(kk) ==
    CHOOSE p \in 1..Len(log) : log[p].op = "sol2d.assign" /\ log[p].k = kk

\* C6: in stage k of coupledSSPRKSync.advance the barotropic stepper's
\* advance is called exactly M[k] times, sub-step i with start time
\* t + start_frac[k]*dt + i*dt_2d[k] and step length dt_2d[k]; over one macro
\* step it is called M[0] + M[1] + M[2] times.
C6_SubCycle ==
    (caller = "advance" /\ recipe = "coupledSSPRKSync" /\ pc # "idle")
        => /\ \A j \in 1..Len(log) :
                 log[j].op = "timeStepper2d.advance" =>
                    LET kk == log[j].k
                        i  == j - SubCycleStart(kk) - 1
                    IN  /\ 0 <= i
                        /\ i < M[kk + 1]
                        /\ log[j].t = FAdd(FAdd(t, FMul(start_frac[kk + 1], solver_dt)),
                                           FMul(FromInt(i), dt_2d[kk + 1]))
                        /\ log[j].dt = dt_2d[kk + 1]
           /\ \A kk \in 0..2 :
                 /\ CountAt("timeStepper2d.advance", kk) <= M[kk + 1]
                 /\ CountAt("_updateAllDependencies", kk) = 1
                       => CountAt("timeStepper2d.advance", kk) = M[kk + 1]
           /\ pc = "done" => Count("timeStepper2d.advance") = M[1] + M[2] + M[3]

\* C6 witness: the second macro step (t = dt = 10) of coupledSSPRKSync with
\* M = [4, 1, 3] completed, eight barotropic sub-steps logged
C6_Witness ==
    /\ caller = "advance"
    /\ pc = "done"
    /\ recipe = "coupledSSPRKSync"
    /\ M = <<4, 1, 3>>
    /\ t = FromInt(10)
    /\ Count("timeStepper2d.advance") = 8

\* the floats f*dt, f*dt/dt_2d and M*dt_inner of stage j, as Python computes them
StageLength(j) == FMul(dt_frac[j], solver_dt)
CoveredLength(j) == FMul(FromInt(M[j]), dt_2d[j])

\* C7 as stated: initialize computes M[k] = ceil(dt_frac[k]*dt/dt_2d) and
\* dt_inner[k] = dt_frac[k]*dt/M[k], so that M[k]*dt_inner[k] equals
\* dt_frac[k]*dt exactly and dt_inner[k] <= dt_2d.
C7_SubCycleExact ==
    (initialized /\ recipe \in TableRecipes)
        => \A j \in 1..3 :
              /\ M[j] = FCeil(FDiv(StageLength(j), solver_dt_2d))
              /\ dt_2d[j] = FDiv(StageLength(j), FromInt(M[j]))
              /\ CoveredLength(j) = StageLength(j)
              /\ FLe(dt_2d[j], solver_dt_2d)

\* C7 amended: initialize computes M[k] >= 1 as the ceiling of the
\* floating-point quotient dt_frac[k]*dt/dt_2d and dt_inner[k] as the
\* floating-point quotient dt_frac[k]*dt/M[k]; M[k]*dt_inner[k] equals
\* dt_frac[k]*dt, and dt_inner[k] is at most dt_2d, up to one unit in the last
\* place (not exactly).
C7_SubCycleRounded ==
    (initialized /\ recipe \in TableRecipes)
        => /\ Len(M) = 3
           /\ Len(dt_2d) = 3
           /\ \A j \in 1..3 :
                 /\ M[j] >= 1
                 /\ M[j] = FCeil(FDiv(StageLength(j), solver_dt_2d))
                 /\ dt_2d[j] = FDiv(StageLength(j), FromInt(M[j]))
                 /\ FLe(FPred(StageLength(j)), CoveredLength(j))
                 /\ FLe(CoveredLength(j), FSucc(StageLength(j)))
                 /\ FLe(dt_2d[j], FSucc(solver_dt_2d))

\* C7 witness: initialize has run with a step ratio that is not an integer
\* and asks for several sub-steps in every stage
C7_Witness ==
    /\ initialized
    /\ recipe \in TableRecipes
    /\ \A j \in 1..3 : M[j] >= 2
    /\ \E j \in 1..3 : FLt(dt_2d[j], solver_dt_2d)

\* C8: with dt = 10 and dt_2d = 3, initialize yields M = [4, 1, 3] and
\* dt_inner = [5/2, 5/2, 20/9]: the first two exactly, the third as the float
\* the division produces, which is 20/9 to within two units in the last place
\* (20/9 is not a binary float).
C8_CanonicalSubCycle ==
    (initialized /\ recipe \in TableRecipes
       /\ solver_dt = FromInt(10) /\ solver_dt_2d = FromInt(3))
        => /\ M = <<4, 1, 3>>
           /\ IsRat(dt_2d[1], 5, 2)
           /\ IsRat(dt_2d[2], 5, 2)
           /\ NearRat(dt_2d[3], 20, 9, 2)

\* C8 witness: initialize of coupledSSPRKSync has run with dt = 10, dt_2d = 3
C8_Witness ==
    /\ initialized
    /\ recipe = "coupledSSPRKSync"
    /\ solver_dt = FromInt(10)
    /\ solver_dt_2d = FromInt(3)
    /\ Len(M) = 3

\* the relation the constructor establishes between the three tables
StageWeightRelation ==
    /\ Len(stage_w) = 3
    /\ stage_w[1] = FSub(FOne, start_frac[1])
    /\ \A j \in 2..3 :
          stage_w[j] = FMul(FAdd(start_frac[j - 1], dt_frac[j - 1]),
                            FSub(FOne, start_frac[j]))
\* dt_frac = [1, 1/4, 2/3] and start_frac = [0, 1/4, 1/3], as floats
CanonicalFractions ==
    /\ dt_frac = <<FromInt(1), FromRat(1, 4), FromRat(2, 3)>>
    /\ start_frac = <<FZero, FromRat(1, 4), FromRat(1, 3)>>
\* |a - n/d| <= 1/100
WithinHundredth(a, n, d) ==
    LET s == IF a[2] < 0 THEN Pow2(0 - a[2]) ELSE 1
        g == IF a[2] > 0 THEN Pow2(a[2]) ELSE 1
        df == 100 * (a[1] * g * d - n * s)
    IN  df <= s * d /\ 0 - df <= s * d

\* C9 as stated: stage_w[0] = 1 - start_frac[0], stage_w[k] =
\* (start_frac[k-1] + dt_frac[k-1])*(1 - start_frac[k]) for k >= 1, and for
\* the canonical fractions stage_w is approximately [1.0, 0.1875, 0.5556].
C9_StageWeightsAsStated ==
    recipe \in TableRecipes
        => /\ StageWeightRelation
           /\ CanonicalFractions
           /\ WithinHundredth(stage_w[1], 1, 1)
           /\ WithinHundredth(stage_w[2], 1875, 10000)
           /\ WithinHundredth(stage_w[3], 5556, 10000)

\* C9 amended: the same relation holds, and for the canonical fractions it
\* yields stage_w = [1, 3/4, 1/3]: the first two exactly, the third up to
\* rounding (within two units in the last place), i.e. about
\* [1.0, 0.75, 0.3333].
C9_StageWeights ==
    recipe \in TableRecipes
        => /\ StageWeightRelation
           /\ CanonicalFractions
           /\ IsRat(stage_w[1], 1, 1)
           /\ IsRat(stage_w[2], 3, 4)
           /\ NearRat(stage_w[3], 1, 3, 2)

\* C9 witness: coupledSSPRKSemiImplicit constructed and initialized, its
\* tables in place
C9_Witness ==
    /\ recipe = "coupledSSPRKSemiImplicit"
    /\ initialized
    /\ Len(stage_w) = 3
    /\ Len(M) = 3

\* the part of a stage of coupledSSPIMEX.advance a logged call belongs to:
\* tracer 1, turbulence advection 2, momentum 3, barotropic 4, turbulence 5,
\* pipeline 6 (0: initialize, and a failed solve)
PhaseIMEX(e) ==
    CASE e.by = "pipeline" -> 6
      [] e.op = "_updateAllDependencies" -> 6
      [] e.op \in {"timeStepper_psi3d.solveStage", "timeStepper_tke3d.solveStage",
                   "tracerLimiter.apply(tke3d)", "tracerLimiter.apply(psi3d)",
                   "glsModel.postprocess", "glsModel.preprocess"} -> 5
      [] e.op = "timeStepper2d.solveStage" -> 4
      [] e.op = "timeStepper_mom3d.solveStage" -> 3
      [] e.op \in {"timeStepper_tkeAdvEq.solveStage",
                   "timeStepper_psiAdvEq.solveStage"} -> 2
      [] e.op \in {"timeStepper_salt3d.solveStage", "tracerLimiter.apply(salt3d)"} -> 1
      [] OTHER -> 0

\* the stage solves of stage kk that the options enable have each run once
EnabledSolvesRan(kk) ==
    /\ CountAt("timeStepper_salt3d.solveStage", kk)
          = (IF options["solveSalt"] THEN 1 ELSE 0)
    /\ CountAt("timeStepper_tkeAdvEq.solveStage", kk)
          = (IF options["useTurbulenceAdvection"] THEN 1 ELSE 0)
    /\ CountAt("timeStepper_psiAdvEq.solveStage", kk)
          = (IF options["useTurbulenceAdvection"] THEN 1 ELSE 0)
    /\ CountAt("timeStepper_mom3d.solveStage", kk) = 1
    /\ CountAt("timeStepper2d.solveStage", kk) = 1
    /\ CountAt("timeStepper_psi3d.solveStage", kk)
          = (IF options["useTurbulence"] THEN 1 ELSE 0)
    /\ CountAt("timeStepper_tke3d.solveStage", kk)
          = (IF options["useTurbulence"] THEN 1 ELSE 0)

\* C11: coupledSSPIMEX.advance runs exactly nStages stages in ascending
\* order (unless a stepper solve fails), and in each stage the enabled
\* operations occur in the order tracer solve, turbulence-advection solves,
\* momentum solve, barotropic solve, turbulence solves, then exactly one
\* pipeline invocation, every solve of a stage being passed that stage's k.
C11_IMEXStageOrder ==
    (caller = "advance" /\ recipe = "coupledSSPIMEX")
        => /\ \A j \in 2..Len(log) :
                 LET a == log[j - 1]
                     b == log[j]
                 IN  PhaseIMEX(b) > 0 =>
                       /\ b.k \in 0..(nStages - 1)
                       /\ \/ PhaseIMEX(a) = 0 /\ b.k = 0
                          \/ a.k = b.k /\ PhaseIMEX(a) > 0
                                       /\ PhaseIMEX(a) <= PhaseIMEX(b)
                          \/ b.k = a.k + 1 /\ a.by = "pipeline"
                                           /\ PhaseIMEX(b) < 6
           /\ \A kk \in 0..(nStages - 1) :
                 /\ CountAt("_updateAllDependencies", kk) <= 1
                 /\ CountAt("_updateAllDependencies", kk) = 1 => EnabledSolvesRan(kk)
           /\ pc = "done" => Count("_updateAllDependencies") = nStages
           /\ pc = "raised" => err = "ConvergenceError"

\* C12: constructing coupledSSPIMEX with solveVertDiffusion enabled raises
\* at construction: no orchestrator is returned (nothing can be called on
\* it: no initialize, no advance, no stepper call is ever made), and no
\* vertical-momentum stepper is created.
C12_IMEXCtorRaises ==
    (recipe = "coupledSSPIMEX" /\ options["solveVertDiffusion"])
        => /\ pc = "ctor_raised"
           /\ err = "Exception"
           /\ "timeStepper_vmom3d" \notin Steppers(recipe, options)
           /\ nAdvance = 0
           /\ ~initialized
           /\ stepperInit = {}
           /\ log = <<>>

\* C12 witness: the constructor of coupledSSPIMEX has raised on
\* solveVertDiffusion, with the tracer and turbulence otherwise enabled
C12_Witness ==
    /\ recipe = "coupledSSPIMEX"
    /\ options["solveVertDiffusion"]
    /\ options["solveSalt"]
    /\ options["useTurbulence"]
    /\ pc = "ctor_raised"

\* the logged advances of the two transported turbulence quantities
PsiOps == {"timeStepper_psi3d.solveStage", "timeStepper_psi3d.advance"}
TkeOps == {"timeStepper_tke3d.solveStage", "timeStepper_tke3d.advance"}

\* the closure's pre-processing ran before position j, after any earlier
\* turbulence advance
PreprocessedBefore(j) ==
    \E i \in 1..(j - 1) :
        /\ log[i].op = "glsModel.preprocess"
        /\ \A h \in (i + 1)..(j - 1) : log[h].op \notin (PsiOps \cup TkeOps)

\* the closure's post-processing runs after position j, before any later
\* turbulence advance
PostprocessedAfter(j) ==
    \E i \in (j + 1)..Len(log) :
        /\ log[i].op = "glsModel.postprocess"
        /\ \A h \in (j + 1)..(i - 1) : log[h].op \notin (PsiOps \cup TkeOps)

\* C13: within each turbulence update psi is advanced before tke,
\* pre-processing has run before both advances of that update and
\* post-processing runs after both: in the pipeline's turbulence step, which
\* once started carries out both advances, and in every stage of
\* coupledSSPIMEX, the first stage of the first macro step included.  (The
\* log holds one macro step, so stage 0 of a later macro step is judged by
\* the post-processing only.)
C13_TurbulenceBracketed ==
    \A j \in 1..Len(log) :
        /\ log[j].op \in PsiOps
              => /\ (nAdvance = 1 \/ log[j].k > 0 \/ log[j].by = "pipeline")
                        => PreprocessedBefore(j)
                 /\ j < Len(log) => log[j + 1].op \in TkeOps
        /\ log[j].op \in TkeOps
              => /\ j > 1
                 /\ log[j - 1].op \in PsiOps
                 /\ log[j - 1].k = log[j].k
                 /\ (pc = "done" \/ k > log[j].k) => PostprocessedAfter(j)
        /\ (log[j].op = "_updateTurbulence" /\ options["useTurbulence"])
              => /\ pc # "raised"
                 /\ pc = "done" => \E i \in (j + 1)..Len(log) : log[i].op \in PsiOps

\* the sub-stepper a logged solve belongs to ("none": not a stepper solve)
StepperOf(op) ==
    CASE op \in {"timeStepper2d.advance", "timeStepper2d.solveStage"} -> "timeStepper2d"
      [] op \in {"timeStepper_mom3d.advance", "timeStepper_mom3d.solveStage"}
            -> "timeStepper_mom3d"
      [] op \in {"timeStepper_salt3d.advance", "timeStepper_salt3d.solveStage"}
            -> "timeStepper_salt3d"
      [] op = "timeStepper_vmom3d.advance" -> "timeStepper_vmom3d"
      [] op \in {"timeStepper_psi3d.advance", "timeStepper_psi3d.solveStage"}
            -> "timeStepper_psi3d"
      [] op \in {"timeStepper_tke3d.advance", "timeStepper_tke3d.solveStage"}
            -> "timeStepper_tke3d"
      [] OTHER -> "none"

\* C14: in every recipe, advance on an orchestrator whose initialize has
\* never run either runs initialize before its first sub-stepper solve or
\* raises before any solve: whenever a sub-stepper solve has been issued,
\* the orchestrator's initialize has run and that sub-stepper has been
\* initialized.
C14_NoSolveUninitialized ==
    \A j \in 1..Len(log) :
        StepperOf(log[j].op) # "none"
            => /\ initialized
               /\ StepperOf(log[j].op) \in stepperInit

\* the recipes whose advance starts with "if not self._initialized"
AutoInitRecipes == {"coupledSSPRKSync", "coupledSSPIMEX", "coupledSSPRKSemiImplicit"}

\* what one step of an auto-initializing recipe does to the initialization
InitializedOnceStep ==
    recipe \in AutoInitRecipes
        => /\ initialized => initialized'
           /\ (nAdvance' = nAdvance + 1)
                 => /\ initialized'
                    /\ (Called("initialize")') <=> (~initialized)
                    /\ initialized => UNCHANGED <<M, dt_2d, stepperInit>>
           /\ (nAdvance' = nAdvance /\ nAdvance > 0)
                 => /\ UNCHANGED <<initialized, M, dt_2d, stepperInit>>
                    /\ (Called("initialize")') <=> Called("initialize")

\* C15: for coupledSSPRKSync, coupledSSPIMEX and coupledSSPRKSemiImplicit
\* the transition from uninitialized to ready happens exactly once over any
\* sequence of advance calls: an advance call runs initialize exactly when
\* the orchestrator is not yet initialized (so the first one does, unless the
\* caller initialized before, and no later one does), it leaves the
\* orchestrator initialized, nothing else in advance runs initialize or
\* changes what it computed, and _initialized never goes from True to False.
C15_InitializedOnce == [][InitializedOnceStep]_vars

\* C15 witness: a second macro step completed by a recipe that initialized
\* itself in the first, with no initialize in the second
C15_Witness ==
    /\ recipe \in AutoInitRecipes
    /\ nAdvance = 2
    /\ pc = "done"
    /\ initialized
    /\ ~Called("initialize")
    /\ Len(log) > 0

\* the lagged state of a stepper: solution_old, solution_lagged, fields_old
\* and the stored dual solution
LaggedState(st) ==
    <<st.solution_old, ValueOf(st, "solution_lagged"), st.fields_old,
      st.msolution_old>>

\* what a repeated initialize does: to a stepper when its argument is the
\* one of the call before, and to the tables of the coupled integrator
InitializeAgainStep ==
    /\ (stepper.nInit > 0 /\ stepper'.nInit = stepper.nInit + 1 /\ stepper'.repeated)
          => LaggedState(stepper') = LaggedState(stepper)
    /\ (initialized /\ nAdvance' = 0 /\ Len(log') = Len(log) + 1)
          => /\ M' = M
             /\ dt_2d' = dt_2d
             /\ Len(M') = 3
             /\ Len(dt_2d') = 3

\* C16: a stepper's initialize called a second time in a row with the same
\* argument and unchanged fields leaves solution_old, solution_lagged,
\* fields_old and the stored dual solution as the first call left them; a
\* second initialize of the coupled integrator with unchanged dt and dt_2d
\* leaves M and dt_2d as they were, three entries each.
C16_InitializeIdempotent == [][InitializeAgainStep]_vars

\* initialize has run twice in a row with the argument 1 on a Picard stepper
\* with a lagged copy of its own, after an advance, and twice on the coupled
\* integrator
C16_Witness ==
    /\ stepper.scheme = "PressureProjectionPicard"
    /\ stepper.iterations > 1
    /\ stepper.nCalls > 0
    /\ stepper.nInit = 2
    /\ stepper.repeated
    /\ LaggedState(stepper) = <<1, 1, stepper.fields, 0>>
    /\ Len(log) = 2
    /\ Len(M) = 3

\* the steppers whose advance is one whole step
WholeStepSchemes ==
    {"ForwardEuler", "CrankNicolson", "SteadyState", "PressureProjectionPicard",
     "LeapFrogAM3"}
\* positions of the calls of kind op issued by the current stepper advance
StepperCalls(op) == {j \in 1..Len(stepper.calls) : stepper.calls[j].op = op}
\* advance of the stepper has ended, by returning or by raising
AdvanceEnded == stepper.nCalls > 0 /\ stepper.nInit = 0 /\ stepper.spc \in {"done", "raised"}

\* what C17 asks of an advance of a whole-step stepper that has ended
ForcingOnceBeforeSolves ==
    /\ Cardinality(StepperCalls("update_forcings")) = (IF stepper.cb THEN 1 ELSE 0)
    /\ \A j \in StepperCalls("update_forcings") :
          /\ stepper.calls[j].tm = FAdd(stepper.t, StepperDt)
          /\ \A i \in StepperCalls("solve") : j < i
    /\ stepper.spc = "done" => StepperCalls("solve") # {}

\* C17: an advance of ForwardEuler, CrankNicolson, SteadyState,
\* PressureProjectionPicard or LeapFrogAM3 invokes the forcing callback exactly
\* once, with t + dt, before its first solve; without a callback nothing is
\* invoked and the solve still runs.
C17_ForcingOncePerStep ==
    (stepper.scheme \in WholeStepSchemes /\ AdvanceEnded) => ForcingOnceBeforeSolves

\* the two-stage steppers
TwoStageSchemes == {"SSPRK22ALE", "TwoStageTrapezoid"}
IsForcing(e) == e.op = "update_forcings"
IsSolve(e) == e.op = "solve"
\* the callback invocations of the current stepper advance, in order
ForcingCalls == SelectSeq(stepper.calls, IsForcing)
\* the calls of the current stepper advance up to and including call j
CallsUpTo(j) == SubSeq(stepper.calls, 1, j)
\* the times t + c[i]*dt of the two stages
StageTimes == <<stepper.t, FAdd(stepper.t, StepperDt)>>

\* C18: in an advance of SSPRK22ALE or TwoStageTrapezoid that was given a
\* callback, the solve of stage i (i = 0, 1) comes after exactly i + 1
\* invocations of the callback, the last of them with t + c[i]*dt, c = [0, 1];
\* an advance that has run both solves has invoked it exactly twice, at t and
\* then at t + dt.  Without a callback nothing is invoked.
C18_StageForcing ==
    (stepper.scheme \in TwoStageSchemes /\ stepper.nCalls > 0 /\ stepper.nInit = 0)
        => /\ ~stepper.cb => ForcingCalls = <<>>
           /\ stepper.cb =>
                \A j \in StepperCalls("solve") :
                    LET i == Len(SelectSeq(CallsUpTo(j), IsSolve))
                        f == SelectSeq(CallsUpTo(j), IsForcing)
                    IN  /\ Len(f) = i
                        /\ f[i].tm = StageTimes[i]
           /\ (stepper.cb /\ Cardinality(StepperCalls("solve")) = 2)
                => /\ Len(ForcingCalls) = 2
                   /\ ForcingCalls[1].tm = stepper.t
                   /\ ForcingCalls[2].tm = FAdd(stepper.t, StepperDt)

\* a second advance of TwoStageTrapezoid, with a callback, has returned after
\* both stage solves
C18_Witness ==
    /\ stepper.scheme = "TwoStageTrapezoid"
    /\ stepper.cb
    /\ stepper.spc = "done"
    /\ stepper.nCalls = 2
    /\ stepper.nInit = 0
    /\ Cardinality(StepperCalls("solve")) = 2
    /\ Len(ForcingCalls) = 2

\* the steppers that keep fields_old
FieldsOldSchemes == {"ForwardEuler", "CrankNicolson", "PressureProjectionPicard"}
\* the steppers that keep solution_old
LaggedSchemes == FieldsOldSchemes \cup {"LeapFrogAM3", "TwoStageTrapezoid"}
\* advance of the stepper has returned
AdvanceReturned == stepper.nCalls > 0 /\ stepper.nInit = 0 /\ stepper.spc = "done"

\* C19 as stated: when advance of ForwardEuler, CrankNicolson,
\* PressureProjectionPicard, LeapFrogAM3 or TwoStageTrapezoid returns,
\* solution_old equals the new value of the field and every fields_old entry
\* equals the current value of its field.
C19_LaggedIsNewValue ==
    (stepper.scheme \in LaggedSchemes /\ AdvanceReturned)
        => /\ stepper.solution_old = stepper.solution
           /\ stepper.scheme \in FieldsOldSchemes
                => stepper.fields_old = stepper.fields

\* C19, amended: when advance returns, solution_old of ForwardEuler,
\* CrankNicolson, PressureProjectionPicard and of LeapFrogAM3 with a nontrivial
\* residual equals the value the field had when advance was entered (the
\* value at t); solution_old of TwoStageTrapezoid with a nontrivial residual
\* equals the new value of the field; every fields_old entry equals the
\* current value of its field.
C19_LaggedAfterAdvance ==
    AdvanceReturned
        => /\ stepper.scheme \in FieldsOldSchemes
                => /\ stepper.solution_old = stepper.solution_n
                   /\ stepper.fields_old = stepper.fields
           /\ (stepper.scheme = "LeapFrogAM3" /\ stepper.nontrivial)
                => stepper.solution_old = stepper.solution_n
           /\ (stepper.scheme = "TwoStageTrapezoid" /\ stepper.nontrivial)
                => stepper.solution_old = stepper.solution

\* a second advance of CrankNicolson has returned with a field value that
\* differs from the one it started from, after the callback changed the fields
C19_Witness ==
    /\ stepper.scheme = "CrankNicolson"
    /\ AdvanceReturned
    /\ stepper.nCalls = 2
    /\ stepper.solution # stepper.solution_n
    /\ stepper.solution_old = stepper.solution_n
    /\ stepper.fields # stepper.fields_n

\* advance is running
InAdvance == pc \in {"stage", "mode2d", "pipeline"}

\* what a step does when a solve or a pipeline step raises, and afterwards
ErrorPropagationStep ==
    /\ (InAdvance /\ err' # err) => pc' = "raised"
    /\ (InAdvance /\ pc' = "raised")
          => /\ err' # "none"
             /\ SubSeq(log', 1, Len(log)) = log
             /\ Cardinality({j \in 1..Len(log') : log'[j].op = "solve failed"}) <= 1
             /\ UNCHANGED <<initialized, M, dt_2d, stepperInit, t, k, ip, nAdvance>>
    /\ pc = "raised" => UNCHANGED vars

CouplingRecipes == Recipes \ {"coupledSSPRK"}

\* the pipeline is past the statement name of an invocation
JustAfter(name) ==
    /\ pc = "pipeline"
    /\ jp > 1
    /\ PipelineBody[jp - 1] = name

CouplingStep ==
    (AtPipeline("_update2DCoupling") /\ flags.do2DCoupling
        /\ recipe \in CouplingRecipes /\ jp' = jp + 1)
    => DepthAverage(functions'.uv3d, functions'.vElemSize3d) = functions'.uv2d

InitFields ==
    {NewFunctions([i \in 1..NLayers |-> RInt(i)], RInt(b), RInt(0)) : b \in 0..MaxVel}

\* the flag tuples the caller passes: the coupling flag and the other four
\* together
CallFlags ==
    {f \in AllFlags : /\ f.doVertDiffusion = f.doALEUpdate
                      /\ f.doStabParams = f.doALEUpdate
                      /\ f.doTurbulence = f.doALEUpdate}

\* the option records of the repeated invocations: every switch off, the
\* moving mesh with the leaf switches, and the vertical diffusion
CallOptions ==
    {NoOptions,
     [n \in OptionNames |-> n \in LeafOptions \cup {"useALEMovingMesh"}],
     [NoOptions EXCEPT !["solveVertDiffusion"] = TRUE]}

\* the caller calls _updateAllDependencies, also after an invocation that
\* returned or raised
CallPipelineRepeated ==
    /\ \/ pc = "idle"
       \/ pc \in {"done", "raised"} /\ caller = "direct"
    /\ Len(pipe.runs) < MaxCalls
    /\ flags' \in CallFlags
    /\ caller' = "direct"
    /\ log' = <<Call("_updateAllDependencies", k)>>
    /\ pc' = "pipeline"
    /\ jp' = 1
    /\ err' = "none"
    /\ pipe' = [pipe EXCEPT !.entry = functions]
    /\ UNCHANGED <<functions, stepper, equation, config, tables, initialized, M, dt_2d, stepperInit,
                   t, k, ip, isub, nAdvance>>

\* the caller assigns the fields between two invocations
AssignFields ==
    /\ pc \in {"done", "raised"}
    /\ caller = "direct"
    /\ Len(pipe.runs) < MaxCalls
    /\ functions' \in InitFields \ {functions}
    /\ UNCHANGED <<stepper, equation, pipe, config, tables, initialized, M, dt_2d, stepperInit, pc, t,
                   k, ip, isub, jp, flags, caller, log, err, nAdvance>>

InitCalls ==
    Constructed({"coupledSSPRKSync", "coupledSSPRKSingleMode"}, CallOptions,
                {<<FromInt(10), FromInt(3)>>})
NextCalls ==
    \/ CallPipelineRepeated
    \/ AssignFields
    \/ Update3dElevation
    \/ UpdateMovingMesh
    \/ VertDiffusion
    \/ Update2DCoupling
    \/ UpdateVerticalVelocity
    \/ UpdateTurbulence
    \/ UpdateMeshVelocity
    \/ UpdateBottomFriction
    \/ UpdateBaroclinicity
    \/ UpdateStabilizationParams
SpecCalls == InitCalls /\ [][NextCalls]_vars

\* two invocations that were given the same fields and the same flags
SameInput(a, b) == a.entry = b.entry /\ a.flags = b.flags
\* did the same and left the same
SameOutcome(a, b) == a.steps = b.steps /\ a.exit = b.exit /\ a.err = b.err

notEquation ==
    <<config, tables, initialized, M, dt_2d, stepperInit, pc, t, k, ip, isub,
      jp, flags, caller, log, err, nAdvance, functions, pipe, stepper>>

\* MomentumEquation.horizontal_advection(solution, total_h,
\* lax_friedrichs_factor, uv_mag, uv_p1)
HorizontalAdvection ==
    /\ equation.class = "MomentumEquation"
    /\ equation.epc = "idle"
    /\ equation' = IF AdvectionRaises(equation)
                    THEN [equation EXCEPT !.epc = "raised", !.err = "Exception"]
                    ELSE [equation EXCEPT !.epc = "returned",
                                          !.terms = AdvectionTerms(equation)]
    /\ UNCHANGED notEquation

\* get_time_step_advection(u_mag) of the four shallow-water equation classes
GetTimeStepAdvection ==
    /\ equation.class \in AdvectionStepClasses
    /\ equation.epc = "idle"
    /\ IF ChecksZeroScale(equation.class) /\ equation.u_mag = 0
       THEN equation' = [equation EXCEPT !.epc = "raised", !.err = "Exception"]
       ELSE \E o \in TimeStepOutcomes(equation.u_mag) :
               equation' = IF o = "ConvergenceError"
                           THEN [equation EXCEPT !.epc = "raised", !.err = o]
                           ELSE [equation EXCEPT !.epc = "returned", !.time_step = o]
    /\ UNCHANGED notEquation

\* the values of the optional arguments and of u_mag
Factors == {None} \cup {Given(v) : v \in 1..MaxVel}
Magnitudes == {None} \cup {Given(v) : v \in 0..MaxVel}
Scales == 0..MaxVel

InitEquations ==
    /\ ConstructedRecipe({"coupledSSPRKSync"}, {NoOptions},
                         {<<FromInt(10), FromInt(3)>>})
    /\ functions = StartFunctions
    /\ pipe = NoRuns(StartFunctions)
    /\ stepper = NewStepper("CrankNicolson", 1, TRUE, 0, 0)
    /\ \/ \E nl \in BOOLEAN, hdg \in BOOLEAN, lax \in Factors,
             mag \in Magnitudes, p1 \in Magnitudes :
             equation = NewEquation("MomentumEquation", nl, hdg, lax, mag, p1, 1)
       \/ \E c \in AdvectionStepClasses, u \in Scales :
             equation = NewEquation(c, TRUE, TRUE, None, None, None, u)
NextEquations ==
    \/ HorizontalAdvection
    \/ GetTimeStepAdvection
SpecEquations == InitEquations /\ [][NextEquations]_vars

(***************************************************************************)
(* C23: Lax-Friedrichs stabilization without uv_mag and uv_p1.             *)
(***************************************************************************)
\* horizontal_advection was called for a nonlinear equation on a
\* discontinuous horizontal space with a Lax-Friedrichs factor
StabilizationRequested ==
    /\ equation.class = "MomentumEquation"
    /\ equation.epc # "idle"
    /\ equation.nonlin
    /\ equation.horizontal_dg
    /\ equation.lax_friedrichs_factor # None

\* C23: when Lax-Friedrichs stabilization is requested and neither uv_mag nor
\* uv_p1 is supplied, horizontal_advection raises; and a call that returns
\* with stabilization requested has the interior stabilization term in its
\* form.
C23_LaxFriedrichsNeedsField ==
    StabilizationRequested
        => /\ (equation.uv_mag = None /\ equation.uv_p1 = None)
                => equation.epc = "raised"
           /\ equation.epc = "returned"
                => "lax_friedrichs_interior" \in equation.terms

(***************************************************************************)
(* C24: get_time_step_advection with a zero velocity scale.                *)
(***************************************************************************)
\* C24: in each of the four classes, get_time_step_advection called with
\* u_mag zero raises and returns no time step.
C24_ZeroScaleRaises ==
    (/\ equation.class \in AdvectionStepClasses
     /\ equation.epc # "idle"
     /\ equation.u_mag = 0)
        => equation.epc = "raised" /\ equation.time_step = "none"

(***************************************************************************)
(* C25: the tables and the sub-cycle counts over advance calls.            *)
(***************************************************************************)
\* a step that belongs to an advance call: its first statements, a statement
\* of its stage loop or a statement of the pipeline it invoked
AdvanceStep ==
    \/ nAdvance' = nAdvance + 1
    \/ nAdvance > 0 /\ log' # log

\* C25 as stated: no step of an advance call changes dt_frac, start_frac,
\* stage_w, M or dt_2d.
C25_AdvanceKeepsTables ==
    [][AdvanceStep => UNCHANGED <<dt_frac, start_frac, stage_w, M, dt_2d>>]_vars

TablesStep ==
    /\ UNCHANGED <<dt_frac, start_frac, stage_w>>
    /\ initialized => UNCHANGED <<M, dt_2d>>
    /\ (M' # M \/ dt_2d' # dt_2d)
          => /\ ~initialized /\ initialized'
             /\ Called("initialize")'
             /\ Len(M') = Len(dt_frac) /\ Len(dt_2d') = Len(dt_frac)

\* C25 amended: dt_frac, start_frac and stage_w keep the values the
\* constructor gave them; M and dt_2d change only in a step that runs
\* initialize on an integrator that is not yet initialized (the caller's
\* initialize, or the first advance, which calls it), and no step changes
\* them once the integrator is initialized, so every macro step uses the
\* same values.
C25_TablesSetOnce == [][TablesStep]_vars

\* a second macro step has ended on the tables and counts the first advance
\* computed
C25_Witness ==
    /\ recipe \in TableRecipes
    /\ nAdvance = 2
    /\ pc = "done"
    /\ Len(M) = 3
    /\ Len(dt_2d) = 3
    /\ stage_w # <<>>

(***************************************************************************)
(* C26: the pipeline with the four gating flags false.                     *)
(***************************************************************************)
\* the calls the four gated steps make
GatedCalls ==
    {"_update2DCoupling", "computeVerticalIntegral(uv3d)", "uv3d -= uvDav3d",
     "uv3d += uv2d", "uv2d.assign(uvDav2d)", "uv2d_start.assign(uvDav2d)",
     "_updateTurbulence", "glsModel.preprocess", "glsModel.postprocess",
     "_updateStabilizationParams", "computeVelMagnitude", "smagorinskyViscosity",
     "computeHorizJumpDiffusivity"}
\* the steps that no flag gates, other than the mesh velocity
UngatedCalls ==
    {"_update3dElevation", "_updateVerticalVelocity", "_updateBottomFriction",
     "_updateBaroclinicity"}
\* the fields the four gated steps write
GatedFields(f) ==
    <<f.uv3d, f.tke3d, f.psi3d, f.uv3d_mag, f.smag_viscosity, f.saltJumpDiff>>

FourFlagsFalse(fl) ==
    /\ ~fl.doVertDiffusion
    /\ ~fl.do2DCoupling
    /\ ~fl.doTurbulence
    /\ ~fl.doStabParams

OpsOf(steps) == {steps[j].op : j \in DOMAIN steps}

\* C26: a direct invocation of the pipeline with doVertDiffusion,
\* do2DCoupling, doTurbulence and doStabParams false returns without an
\* exception, makes none of the calls of the vertical-diffusion, coupling,
\* turbulence and stabilization steps, leaves uv3d, tke3d, psi3d and the
\* stabilization fields as they were at entry, and calls the elevation,
\* vertical-velocity, bottom-friction and baroclinic-head steps, with
\* doALEUpdate either way and under every option record.
C26_FlagsGateOwnSteps ==
    \A j \in DOMAIN pipe.runs :
        FourFlagsFalse(pipe.runs[j].flags)
            => /\ pipe.runs[j].err = "none"
               /\ OpsOf(pipe.runs[j].steps) \cap GatedCalls = {}
               /\ GatedFields(pipe.runs[j].exit) = GatedFields(pipe.runs[j].entry)
               /\ UngatedCalls \subseteq OpsOf(pipe.runs[j].steps)

\* such an invocation has ended under options that switch on vertical
\* diffusion, turbulence and the stabilization coefficients, and it has
\* recomputed the vertical velocity
C26_Witness ==
    /\ pipe.runs # <<>>
    /\ FourFlagsFalse(pipe.runs[1].flags)
    /\ pipe.runs[1].flags.doALEUpdate
    /\ options["solveVertDiffusion"]
    /\ options["useTurbulence"]
    /\ options["smagorinskyFactor"]
    /\ pipe.runs[1].exit.w3d # pipe.runs[1].entry.w3d

(***************************************************************************)
(* C27: the semi-implicit and single-mode recipes against the              *)
(* synchronized one.                                                       *)
(***************************************************************************)
UnsplitRecipes == {"coupledSSPRKSemiImplicit", "coupledSSPRKSingleMode"}

\* the sub-stepper solves advance issued in stage kk, in order
StageSolves(kk) ==
    SelectSeq(log, LAMBDA e : e.k = kk /\ e.by = "advance" /\ StepperOf(e.op) # "none")

\* the sub-steppers of a sequence of solves, a run of solves of one
\* sub-stepper counted once
RECURSIVE SteppersInOrder(_)
SteppersInOrder(sq) ==
    IF sq = <<>> THEN <<>>
    ELSE LET rest == SteppersInOrder(Tail(sq))
             s == StepperOf(Head(sq).op)
         IN  IF rest # <<>> /\ Head(rest) = s THEN rest ELSE <<s>> \o rest

\* the sub-steppers one stage of the synchronized recipe solves with
SyncStageSteppers ==
    SteppersInOrder(
        SelectSeq([j \in 1..Len(StageBody("coupledSSPRKSync")) |->
                      [op |-> CASE StageBody("coupledSSPRKSync")[j] = "saltEq"
                                     -> IF options["solveSalt"]
                                        THEN "timeStepper_salt3d.solveStage" ELSE ""
                                [] StageBody("coupledSSPRKSync")[j] = "momentumEq"
                                     -> "timeStepper_mom3d.solveStage"
                                [] StageBody("coupledSSPRKSync")[j] = "mode2d"
                                     -> "timeStepper2d.advance"
                                [] OTHER -> ""]],
                  LAMBDA e : StepperOf(e.op) # "none"))

\* in stage kk the barotropic stepper made one solveStage call and no advance
\* call, and every stage solve was given the same time and the same step
OneBarotropicStageSolve(kk) ==
    LET sv == StageSolves(kk)
        two == {j \in DOMAIN sv : StepperOf(sv[j].op) = "timeStepper2d"}
    IN  /\ Cardinality(two) = 1
        /\ \A j \in two : sv[j].op = "timeStepper2d.solveStage"
        /\ \A i \in DOMAIN sv, j \in two : sv[i].dt = sv[j].dt /\ sv[i].t = sv[j].t

AdvanceCompleted == pc = "done" /\ caller = "advance" /\ nAdvance > 0
InvokedByAdvance == pc = "pipeline" /\ caller = "advance"

\* C27 as stated: in the semi-implicit and single-mode recipes each stage
\* has one barotropic solveStage with the step of the other stage solves,
\* the sub-steppers solved with in each stage are those of the synchronized
\* recipe, and the flags passed to the pipeline are those the synchronized
\* recipe passes in that stage.
C27_SameAsSync ==
    recipe \in UnsplitRecipes
        => /\ AdvanceCompleted
                => \A kk \in 0..2 :
                      /\ OneBarotropicStageSolve(kk)
                      /\ SteppersInOrder(StageSolves(kk)) = SyncStageSteppers
           /\ InvokedByAdvance
                => flags = FlagsFor("coupledSSPRKSync", k, nStages)

\* C27 amended: in every advance call of the semi-implicit or single-mode
\* recipe that returns, each of the three stages has exactly one barotropic
\* solveStage, with the stage index, time and step of the other stage solves
\* (solver.dt in the semi-implicit recipe, solver.dt_2d in the single-mode
\* one), and the sub-steppers solved with are those of a stage of the
\* synchronized recipe; the semi-implicit recipe passes the flags of the
\* synchronized recipe, the single-mode recipe passes do2DCoupling true in
\* every stage and the other four flags as the synchronized recipe; and with
\* useTurbulenceAdvection the semi-implicit advance does not return: it
\* raises in stage 0 before the momentum solve.
C27_UnsplitAgainstSync ==
    /\ (recipe \in UnsplitRecipes \cup {"coupledSSPRKSync"} /\ AdvanceCompleted)
          => \A kk \in 0..2 : SteppersInOrder(StageSolves(kk)) = SyncStageSteppers
    /\ (recipe \in UnsplitRecipes /\ AdvanceCompleted)
          => \A kk \in 0..2 :
                /\ OneBarotropicStageSolve(kk)
                /\ \A j \in DOMAIN StageSolves(kk) :
                       StageSolves(kk)[j].dt = StageDt(recipe)
    /\ (recipe \in UnsplitRecipes /\ InvokedByAdvance)
          => flags = [FlagsFor("coupledSSPRKSync", k, nStages)
                        EXCEPT !.do2DCoupling = @ \/ recipe = "coupledSSPRKSingleMode"]
    /\ (recipe = "coupledSSPRKSemiImplicit" /\ options["useTurbulenceAdvection"]
           /\ nAdvance > 0)
          => /\ pc \in {"stage", "raised"}
             /\ k = 0
             /\ StepperOf("timeStepper_mom3d.solveStage")
                   \notin {StepperOf(log[j].op) : j \in DOMAIN log}

\* a single-mode advance with tracer solves has returned, its steps
\* different from the outer steps
C27_Witness ==
    /\ recipe = "coupledSSPRKSingleMode"
    /\ AdvanceCompleted
    /\ options["solveSalt"]
    /\ solver_dt # solver_dt_2d
    /\ Len(StageSolves(2)) = 3

(***************************************************************************)
(* C28: the step-start snapshot and the blended start of a sub-cycle.      *)
(***************************************************************************)
\* the barotropic state (uv2d, elev2d) held by the fields f
Sol2d(f) == <<f.uv2d, f.elev2d>>

\* the step is the statement that starts the sub-cycle of stage k
StartsSubCycle ==
    /\ recipe = "coupledSSPRKSync"
    /\ AtStatement("mode2d")
    /\ Len(log') = Len(log) + 1
    /\ log'[Len(log')].op = "sol2d.assign"

\* w*a + (1 - w)*b in exact arithmetic, w being the value of a float
Weighted(w, a, b) ==
    RAdd(RMul(FloatToRat(w), a), RMul(RSub(RInt(1), FloatToRat(w)), b))

SnapshotStep ==
    /\ (recipe = "coupledSSPRKSync" /\ nAdvance' = nAdvance + 1)
          => functions'.sol2d_n = Sol2d(functions) /\ k' = 0 /\ pc' = "stage"
    /\ nAdvance' = nAdvance => functions'.sol2d_n = functions.sol2d_n
    /\ StartsSubCycle
          => /\ \A c \in 1..2 :
                   Sol2d(functions')[c]
                     = Weighted(stage_w[k + 1], functions.sol2d_n[c], Sol2d(functions)[c])
             /\ k = 0 => Sol2d(functions') = functions.sol2d_n

\* C28: coupledSSPRKSync.advance copies the barotropic state into sol2d_n
\* when it is entered, before stage 0, and no other step of the advance
\* call changes sol2d_n; the statement that starts the sub-cycle of stage k
\* sets the barotropic state to stage_w[k]*sol2d_n + (1 - stage_w[k]) times
\* its current value, which at stage 0 is the snapshot itself.
C28_SnapshotBlend == [][SnapshotStep]_vars

\* the sub-cycle of the last stage of a second macro step has started from a
\* proper blend of the snapshot and the state the stage before left
C28_Witness ==
    /\ recipe = "coupledSSPRKSync"
    /\ pc = "mode2d"
    /\ isub = 0
    /\ nAdvance = 2
    /\ k = 2
    /\ log # <<>>
    /\ log[Len(log)].op = "sol2d.assign"
    /\ functions.uv2d # functions.sol2d_n[1]
    /\ functions.uv2d[2] # 1
    /\ functions.sol2d_n # StartFunctions.sol2d_n

(***************************************************************************)
(* C29: the Picard iterations of PressureProjectionPicard.advance.         *)
(***************************************************************************)
\* what the current advance did, the forcing callback left out
StepsDone == SelectSeq(stepper.calls, LAMBDA e : e.op # "update_forcings")

IsStep(e, op, a) == e.op = op /\ e.a = a
\* the positions of StepsDone with a statement op on a
StepsAt(op, a) == {j \in DOMAIN StepsDone : IsStep(StepsDone[j], op, a)}

\* C29: an advance of PressureProjectionPicard that returns has made
\* exactly iterations momentum solves and iterations wave solves, each
\* momentum solve followed at once by a wave solve and, when iterations > 1,
\* preceded at once by solution_lagged := solution (no such assignment is
\* made when iterations = 1); solution_old := solution was its first
\* statement and ran once, so solution_old holds the solution at entry; and
\* the fields_old update was its last statement and ran once.
C29_PicardIterations ==
    (stepper.scheme = "PressureProjectionPicard" /\ stepper.spc = "done")
        => /\ Cardinality(StepsAt("solve", "solver_mom")) = stepper.iterations
           /\ Cardinality(StepsAt("solve", "solver")) = stepper.iterations
           /\ \A j \in StepsAt("solve", "solver_mom") :
                  /\ j + 1 \in StepsAt("solve", "solver")
                  /\ stepper.iterations > 1
                        => j - 1 \in StepsAt("assign", "solution_lagged")
           /\ Cardinality(StepsAt("assign", "solution_lagged"))
                 = IF stepper.iterations > 1 THEN stepper.iterations ELSE 0
           /\ \A j \in StepsAt("assign", "solution_lagged") :
                  StepsDone[j].b = "solution" /\ j + 1 \in StepsAt("solve", "solver_mom")
           /\ StepsAt("assign", "solution_old") = {1}
           /\ StepsDone[1].b = "solution"
           /\ stepper.solution_old = stepper.solution_n
           /\ StepsAt("shift_fields", "fields_old") = {Len(StepsDone)}
           /\ stepper.fields_old = stepper.fields

\* an advance with two or more iterations has returned with a new solution
C29_Witness ==
    /\ stepper.scheme = "PressureProjectionPicard"
    /\ stepper.spc = "done"
    /\ stepper.iterations > 1
    /\ stepper.cb
    /\ stepper.solution # stepper.solution_n
    /\ Cardinality(StepsAt("solve", "solver")) = stepper.iterations

(***************************************************************************)
(* C30: the order of LeapFrogAM3.advance.                                  *)
(***************************************************************************)
\* the position in StepsDone of the only statement op on a (0 if there is
\* none or more than one)
StepOf(op, a) ==
    IF Cardinality(StepsAt(op, a)) = 1
    THEN CHOOSE j \in StepsAt(op, a) : TRUE ELSE 0

\* C30: an advance of LeapFrogAM3 with a nontrivial residual that returns
\* has run eight statements, in this order: the assembly of the
\* mass-weighted solution into msolution_old, the assembly of the predictor
\* right-hand side, solution_old := solution, the predictor solve, the
\* assembly of the corrector right-hand side, the addition of
\* msolution_old, the assembly of the mass matrix, the corrector solve; the
\* mass matrix is assembled once, after the corrector right-hand side; and
\* msolution_old and solution_old hold the solution at entry.
C30_LeapFrogOrder ==
    (stepper.scheme = "LeapFrogAM3" /\ stepper.nontrivial /\ stepper.spc = "done")
        => /\ Len(StepsDone) = 8
           /\ StepOf("assemble", "mass_new") = 1
           /\ StepsDone[1].b = "msolution_old"
           /\ StepOf("assemble", "l_prediction") = 2
           /\ StepOf("assign", "solution_old") = 3
           /\ StepsDone[3].b = "solution"
           /\ StepsAt("solve", "_solve_system") = {4, 8}
           /\ StepOf("assemble", "l") = 5
           /\ StepsDone[2].b = "rhs_func" /\ StepsDone[5].b = "rhs_func"
           /\ StepOf("incr", "rhs_func") = 6
           /\ StepsDone[6].b = "msolution_old"
           /\ StepOf("assemble", "a") = 7
           /\ StepsDone[7].b = "mass_matrix"
           /\ \A j \in DOMAIN StepsDone :
                  StepsDone[j].b = "mass_matrix" => j > StepOf("assemble", "l")
           /\ stepper.msolution_old = stepper.solution_n
           /\ stepper.solution_old = stepper.solution_n

\* such an advance has returned, with a callback and a new solution
C30_Witness ==
    /\ stepper.scheme = "LeapFrogAM3"
    /\ stepper.nontrivial
    /\ stepper.spc = "done"
    /\ stepper.ready
    /\ stepper.cb
    /\ stepper.solution # stepper.solution_n
    /\ Len(StepsDone) = 8

(***************************************************************************)
(* C31: the dual right-hand side of SSPRK22ALE.                            *)
(***************************************************************************)
\* the current advance of a nontrivial SSPRK22ALE has run n statements
ALEAfter(n) ==
    /\ stepper.scheme = "SSPRK22ALE"
    /\ stepper.nontrivial
    /\ stepper.spc = "run"
    /\ Len(StepsDone) = n
\* (a + b)/2
HalfSum(a, b) == RMul(Rat(1, 2), RAdd(a, b))

\* C31: in one step of SSPRK22ALE with a nontrivial residual, stage 0
\* assembles the mass-weighted solution at step start into mu_old and
\* k1 = dt*F of the solution at step start, and sets mu = mu_old + k1;
\* stage 1 assembles k2 = dt*F of the solution the stage-0 solve left, and
\* the final solve runs with mu = mu_old + (k1 + k2)/2; in both stages the
\* tendency is assembled before the mass matrix is assembled again, and the
\* solve comes last.
C31_DualRightHandSide ==
    /\ ALEAfter(3)
          => /\ StepsDone[1].a = "mu_form" /\ StepsDone[1].b = "mu_old"
             /\ StepsDone[2].a = "l" /\ StepsDone[2].b = "tendency"
             /\ StepsDone[3].op = "stage_one"
             /\ stepper.solution = stepper.solution_n
             /\ stepper.mu_old = RInt(stepper.solution_n)
             /\ stepper.k1 = Tendency(stepper.solution_n, stepper.fields)
             /\ stepper.mu = RAdd(stepper.mu_old, stepper.k1)
    /\ ALEAfter(8)
          => /\ StepsAt("assemble", "l") = {2, 6}
             /\ StepsAt("assemble", "a") = {4, 8}
             /\ StepsAt("solve", "lin_solver") = {5}
             /\ StepsDone[7].op = "stage_two"
             /\ \A j \in DOMAIN StepsDone : StepsDone[j].b = "solution" <=> j = 5
             /\ stepper.mu_old = RInt(stepper.solution_n)
             /\ stepper.tendency = Tendency(stepper.solution, stepper.fields)
             /\ stepper.mu = RAdd(stepper.mu_old,
                                  HalfSum(stepper.k1, stepper.tendency))
    /\ (stepper.scheme = "SSPRK22ALE" /\ stepper.nontrivial /\ stepper.spc = "done")
          => /\ Len(StepsDone) = 9
             /\ StepsAt("solve", "lin_solver") = {5, 9}
             /\ stepper.mu = RAdd(stepper.mu_old,
                                  HalfSum(stepper.k1, stepper.tendency))

\* the final stage is about to be solved, after a callback, with two
\* different tendencies and a stage-0 result that differs from the solution
\* at step start
C31_Witness ==
    /\ ALEAfter(8)
    /\ stepper.cb
    /\ stepper.solution # stepper.solution_n
    /\ stepper.k1 # stepper.tendency
    /\ stepper.k1 # RInt(0)
    /\ stepper.mu # stepper.mu_old

(***************************************************************************)
(* C32: the two stages of TwoStageTrapezoid.                               *)
(***************************************************************************)
\* the current advance of a nontrivial TwoStageTrapezoid has run n
\* statements
TrapezoidAfter(n) ==
    /\ stepper.scheme = "TwoStageTrapezoid"
    /\ stepper.nontrivial
    /\ stepper.spc = "run"
    /\ Len(StepsDone) = n

\* C32: an advance of TwoStageTrapezoid with a nontrivial residual solves
\* stage 0 with solver_0 and then stage 1 with solver_1; until the stage-1
\* solve has returned solution_old holds what it held when advance was
\* entered (the solution at step start, if the step before or initialize
\* left them equal), whatever the stage-0 solve wrote into the solution;
\* solution_old := solution is the statement after the stage-1 solve and the
\* last one, so an advance that returns leaves solution_old equal to the
\* solution.
C32_TrapezoidStages ==
    /\ (\E n \in 0..2 : TrapezoidAfter(n))
          => /\ stepper.solution_old = stepper.solution_old_n
             /\ StepsAt("assign", "solution_old") = {}
    /\ (TrapezoidAfter(1) \/ TrapezoidAfter(2))
          => IsStep(StepsDone[1], "solve", "solver_0")
    /\ TrapezoidAfter(2) => IsStep(StepsDone[2], "solve", "solver_1")
    /\ (stepper.scheme = "TwoStageTrapezoid" /\ stepper.nontrivial
          /\ stepper.spc = "done")
          => /\ Len(StepsDone) = 3
             /\ StepOf("solve", "solver_0") = 1
             /\ StepOf("solve", "solver_1") = 2
             /\ StepOf("assign", "solution_old") = 3
             /\ StepsDone[3].b = "solution"
             /\ stepper.solution_old = stepper.solution

\* the stage-1 solve has returned in a step that started with solution_old
\* equal to the solution, and both solves changed the solution
C32_Witness ==
    /\ TrapezoidAfter(2)
    /\ stepper.cb
    /\ stepper.solution_old_n = stepper.solution_n
    /\ stepper.solution # stepper.solution_n
    /\ stepper.solution_old = stepper.solution_n
    /\ stepper.nCalls = 2

(***************************************************************************)
(* C33: the order of coupledSSPRK.advance.                                 *)
(***************************************************************************)
\* the operations advance of coupledSSPRK issues itself, in the order of the
\* claim: the steps each of them makes inside are left out
MacroStepOps ==
    <<"timeStepper2d.advance", "copy2dFieldTo3d(elev_n)", "copy2dFieldTo3d(elev_nph)",
      "_updateMovingMesh", "_updateBottomFriction", "_updateBaroclinicity",
      "timeStepper_mom3d.advance", "timeStepper_vmom3d.advance",
      "_updateVerticalVelocity", "_updateMeshVelocity",
      "timeStepper_salt3d.advance", "_update2DCoupling">>
\* the operations of the claim that the options enable
MacroStepEnabled(op) ==
    /\ op = "timeStepper_vmom3d.advance" => options["solveVertDiffusion"]
    /\ op = "timeStepper_salt3d.advance" => options["solveSalt"]
MacroStepExpected == SelectSeq(MacroStepOps, MacroStepEnabled)
\* the operations of the claim that the current advance has issued
MacroStepIssued ==
    LET top == {MacroStepOps[j] : j \in DOMAIN MacroStepOps}
        ops == [j \in DOMAIN log |-> log[j].op]
    IN  SelectSeq(ops, LAMBDA op : op \in top)
\* the steps the coupling makes
CouplingSteps ==
    {"_update2DCoupling", "computeVerticalIntegral(uv3d)", "uv2d_start.assign(uvDav2d)"}

\* C33: at every point of an advance of coupledSSPRK the operations issued so
\* far are the first ones of: barotropic advance, copy of the elevation at
\* t_{n+1} and at t_{n+1/2} into 3D, moving mesh, bottom friction,
\* baroclinic head, 3D momentum advance, vertical diffusion (if
\* solveVertDiffusion), vertical velocity, mesh velocity, tracer advance (if
\* solveSalt), 2D-3D coupling; an advance that has returned has issued all of
\* them, each once, the barotropic advance once and first, and the steps of
\* the coupling last.
C33_MacroStepOrder ==
    (recipe = "coupledSSPRK" /\ pc \in {"stage", "done"})
        => /\ Len(MacroStepIssued) <= Len(MacroStepExpected)
           /\ MacroStepIssued = SubSeq(MacroStepExpected, 1, Len(MacroStepIssued))
           /\ pc = "done"
                 => /\ MacroStepIssued = MacroStepExpected
                    /\ Cardinality({j \in DOMAIN log :
                                       log[j].op = "timeStepper2d.advance"}) = 1
                    /\ log[1].op = "timeStepper2d.advance"
                    /\ log[Len(log)].op \in CouplingSteps
                    /\ \A i, j \in DOMAIN log :
                          (log[i].op \in CouplingSteps /\ i < j)
                             => log[j].op \in CouplingSteps

\* a second advance of coupledSSPRK has returned, with vertical diffusion
\* and the tracer enabled
C33_Witness ==
    /\ recipe = "coupledSSPRK"
    /\ pc = "done"
    /\ nAdvance = 2
    /\ options["solveVertDiffusion"]
    /\ options["solveSalt"]
    /\ Len(MacroStepIssued) = 12

(***************************************************************************)
(* C34: sub-steppers are initialized before they are driven.               *)
(***************************************************************************)
\* the sub-steppers the current advance has driven so far
Driven == {StepperOf(log[j].op) : j \in DOMAIN log} \ {"none"}

\* C34: once initialize of the coupled integrator has run, every sub-stepper
\* on which advance issues an advance or a solveStage (barotropic, momentum,
\* tracer, vertical diffusion, the tke and psi steppers of the turbulence
\* closure) has had its own initialize called.
C34_DrivenSteppersInitialized == initialized => Driven \subseteq stepperInit

(***************************************************************************)
(* C35: the time window of a barotropic sub-cycle.                         *)
(***************************************************************************)
\* the step sizes tried: an outer step of one to three barotropic target
\* steps
WindowPairs ==
    {p \in StepSizes \X StepSizes :
        FLe(p[2], p[1]) /\ FLe(p[1], FMul(FromInt(3), p[2]))}
\* coupledSSPRKSync stepping over the grid of step sizes, every option off
InitWindows == Constructed({"coupledSSPRKSync"}, {NoOptions}, WindowPairs)
NextWindows ==
    \/ Initialize
    \/ Advance
    \/ SaltEq
    \/ MomentumEq
    \/ Mode2dStart
    \/ Mode2dSubStep
    \/ UpdateAllDependencies
    \/ SolveFails
    \/ Update3dElevation
    \/ UpdateMovingMesh
    \/ VertDiffusion
    \/ Update2DCoupling
    \/ UpdateVerticalVelocity
    \/ UpdateTurbulence
    \/ UpdateMeshVelocity
    \/ UpdateBottomFriction
    \/ UpdateBaroclinicity
    \/ UpdateStabilizationParams
SpecWindows == InitWindows /\ [][NextWindows]_vars

\* the positions in the log of the sub-steps of stage kk, and the first and
\* the last of them
SubSteps(kk) ==
    {j \in DOMAIN log : log[j].op = "timeStepper2d.advance" /\ log[j].k = kk}
FirstSubStep(kk) == CHOOSE j \in SubSteps(kk) : \A i \in SubSteps(kk) : j <= i
LastSubStep(kk) == CHOOSE j \in SubSteps(kk) : \A i \in SubSteps(kk) : i <= j
\* the sub-cycle of stage kk of the current macro step has ended
SubCycleEnded(kk) ==
    /\ caller = "advance"
    /\ recipe = "coupledSSPRKSync"
    /\ pc \in {"stage", "pipeline", "done"}
    /\ initialized
    /\ Cardinality(SubSteps(kk)) = M[kk + 1]
    /\ CountAt("_updateAllDependencies", kk) = 1
\* the window of stage kk and the end of the macro step, as floats
WindowStart(kk) == FAdd(t, FMul(start_frac[kk + 1], solver_dt))
WindowEnd(kk) ==
    FAdd(t, FMul(FAdd(start_frac[kk + 1], dt_frac[kk + 1]), solver_dt))
StepEnd == FAdd(t, solver_dt)
\* where the last sub-step of stage kk ends
SubCycleEnd(kk) == FAdd(log[LastSubStep(kk)].t, log[LastSubStep(kk)].dt)
\* the floats a and b differ by at most u units in the last place of a
WithinUlps(a, b, u) == NearRat(a, FloatToRat(b)[1], FloatToRat(b)[2], u)

\* C35 as stated: the sub-cycle of stage k starts at t + start_frac[k]*dt, its
\* start times increase strictly, its last sub-step ends exactly at
\* t + (start_frac[k] + dt_frac[k])*dt, the window lies inside [t, t + dt],
\* and the last sub-step of stage 2 ends exactly at t + dt.
C35_WindowExact ==
    \A kk \in 0..2 :
        SubCycleEnded(kk)
           => /\ log[FirstSubStep(kk)].t = WindowStart(kk)
              /\ \A i, j \in SubSteps(kk) : i < j => FLt(log[i].t, log[j].t)
              /\ SubCycleEnd(kk) = WindowEnd(kk)
              /\ FLe(t, WindowStart(kk))
              /\ FLe(SubCycleEnd(kk), StepEnd)
              /\ kk = 2 => SubCycleEnd(kk) = StepEnd

\* C35 amended: the sub-cycle of stage k starts at the float
\* t + start_frac[k]*dt, not before t, its start times increase strictly,
\* and its last sub-step ends at t + (start_frac[k] + dt_frac[k])*dt, for
\* stage 2 at t + dt, up to floating-point rounding (here four units in the
\* last place), not exactly.
C35_WindowRounded ==
    \A kk \in 0..2 :
        SubCycleEnded(kk)
           => /\ log[FirstSubStep(kk)].t = WindowStart(kk)
              /\ \A i, j \in SubSteps(kk) : i < j => FLt(log[i].t, log[j].t)
              /\ WithinUlps(SubCycleEnd(kk), WindowEnd(kk), 4)
              /\ FLe(t, WindowStart(kk))
              /\ kk = 2 => WithinUlps(SubCycleEnd(kk), StepEnd, 4)

\* the second macro step has ended with two sub-steps or more in its last
\* stage, whose last sub-step does not end at t + dt
C35_Witness ==
    /\ SubCycleEnded(2)
    /\ pc = "done"
    /\ nAdvance = 2
    /\ M[3] >= 2
    /\ SubCycleEnd(2) # StepEnd

(***************************************************************************)
(* C36: advance of a stepper with a trivial residual.                      *)
(***************************************************************************)
\* an advance of a stepper that tests _nontrivial, the residual being trivial
TrivialAdvance ==
    /\ stepper.scheme \in GatedSchemes
    /\ ~stepper.nontrivial
    /\ stepper.spc \in {"run", "done"}

\* C36: with _nontrivial false, advance of LeapFrogAM3, SSPRK22ALE and
\* TwoStageTrapezoid does nothing: it runs no statement and no solve, does
\* not invoke the forcing callback, and leaves the solution, solution_old
\* and the forcing fields as they were at entry.
C36_TrivialAdvanceNoOp ==
    TrivialAdvance
        => /\ stepper.calls = <<>>
           /\ stepper.solution = stepper.solution_n
           /\ stepper.solution_old = stepper.solution_old_n
           /\ stepper.fields = stepper.fields_n

(***************************************************************************)
(* C37: the lagged state of the Picard iterations.                         *)
(***************************************************************************)
\* an advance of PressureProjectionPicard is about to run the solve named a
PicardAt(a) ==
    /\ stepper.scheme = "PressureProjectionPicard"
    /\ AtStmt("solve")
    /\ CurrentStmt.a = a

\* C37: for every number of iterations, when an iteration of
\* PressureProjectionPicard.advance is about to run its momentum solve, and
\* still when it is about to run its wave solve, solution_lagged holds the
\* value of the solution before the two solves of that iteration (with one
\* iteration, where solution_lagged is solution_old, the value at step
\* start); and from the first statement of advance until it returns
\* solution_old holds the value the solution had at step start.
C37_PicardLagged ==
    /\ (PicardAt("solver_mom") \/ PicardAt("solver"))
          => /\ ValueOf(stepper, "solution_lagged") = stepper.solution
             /\ stepper.solution_old = stepper.solution_n
             /\ stepper.iterations = 1
                   => /\ ValueOf(stepper, "solution_lagged") = stepper.solution_old
                      /\ stepper.solution = stepper.solution_n
    /\ (stepper.scheme = "PressureProjectionPicard"
          /\ stepper.spc \in {"run", "done"} /\ StepsDone # <<>>)
          => stepper.solution_old = stepper.solution_n

\* the second iteration of an advance is about to run its momentum solve,
\* the first iteration having changed the solution
C37_Witness ==
    /\ PicardAt("solver_mom")
    /\ stepper.iterations > 1
    /\ Cardinality(StepsAt("solve", "solver")) = 1
    /\ stepper.solution # stepper.solution_n
    /\ stepper.solution_lagged = stepper.solution

(***************************************************************************)
(* C38: the tracer limiter on the salt field.                              *)
(***************************************************************************)
\* the recipes whose advance loops over stages
StagedRecipes ==
    {"coupledSSPRKSync", "coupledSSPIMEX", "coupledSSPRKSemiImplicit",
     "coupledSSPRKSingleMode"}

\* the stages of the running recipe in which the salt field is limited
LimitedStage(kk) ==
    /\ options["solveSalt"]
    /\ options["useLimiterForTracers"]
    /\ (recipe = "coupledSSPIMEX" => kk = nStages - 1)

\* positions in the log of the calls of op in stage kk
PositionsAt(op, kk) == {j \in 1..Len(log) : log[j].op = op /\ log[j].k = kk}

\* C38: in the advance of a staged recipe the tracer limiter is applied to
\* the salt field only with solveSalt and useLimiterForTracers set, only
\* directly after the tracer solve of the same stage, and before the
\* momentum solve of that stage; the momentum solve of a stage finds the
\* salt field limited exactly once in that stage if the stage is one in
\* which the limiter applies (every stage of the three-stage recipes, the
\* last stage of SSP-IMEX) and not at all otherwise; a completed macro step
\* has limited the salt field three times in the three-stage recipes, once
\* in SSP-IMEX, and never with useLimiterForTracers false.
C38_SaltLimiter ==
    (caller = "advance" /\ recipe \in StagedRecipes)
        => /\ \A j \in 1..Len(log) :
                 log[j].op = "tracerLimiter.apply(salt3d)"
                    => /\ LimitedStage(log[j].k)
                       /\ j > 1
                       /\ log[j - 1].op = "timeStepper_salt3d.solveStage"
                       /\ log[j - 1].k = log[j].k
                       /\ \A i \in PositionsAt("timeStepper_mom3d.solveStage", log[j].k) :
                              i > j
           /\ \A j \in 1..Len(log) :
                 log[j].op = "timeStepper_mom3d.solveStage"
                    => /\ CountAt("tracerLimiter.apply(salt3d)", log[j].k)
                             = (IF LimitedStage(log[j].k) THEN 1 ELSE 0)
                       /\ \A i \in PositionsAt("tracerLimiter.apply(salt3d)", log[j].k) :
                              i < j
           /\ pc = "done"
                 => Count("tracerLimiter.apply(salt3d)")
                       = (IF options["solveSalt"] /\ options["useLimiterForTracers"]
                          THEN (IF recipe = "coupledSSPIMEX" THEN 1 ELSE 3)
                          ELSE 0)

\* a completed macro step of SSP-IMEX with three stages that solved the
\* tracer in every stage and limited it in the last one only
C38_Witness ==
    /\ caller = "advance"
    /\ pc = "done"
    /\ recipe = "coupledSSPIMEX"
    /\ nStages = 3
    /\ Count("timeStepper_salt3d.solveStage") = 3
    /\ CountAt("tracerLimiter.apply(salt3d)", 2) = 1
    /\ Count("tracerLimiter.apply(salt3d)") = 1

====
